---- MODULE Spec2Model ----
(***************************************************************************)
(* OSC buzzer server: the OSC dispatch engine (OSCService), the serial     *)
(* line parser and device state store (ESP32Service) and the configuration *)
(* store (Database) they read.                                             *)
(*                                                                         *)
(* Every await of the JavaScript source is a suspension point: an action   *)
(* runs the synchronous code between two awaits, as the event loop does.   *)
(***************************************************************************)
EXTENDS Integers, Sequences, FiniteSets, TLC

VARIABLES
  buzzer_bindings,          \* table buzzer_bindings
  osc_commands,             \* table osc_commands
  osc_targets,              \* table osc_targets
  buzzer_command_mappings,  \* table buzzer_command_mappings
  calls,                    \* configuration requests, in order of arrival
  presses,                  \* processBuzzerPress invocations, in order of arrival
  tests,                    \* sendTestCommand invocations, in order of arrival
  clients,                  \* OSCService.clients: targetKey -> sender
  senders,                  \* every osc.Client ever constructed: [key, open]
  disconnects,              \* number of OSCService.disconnect calls so far
  faults,                   \* number of failed sends and failed log writes so far
  deviceStates,             \* ESP32Service.deviceStates: key -> state object
  lastHeartbeatDevice,      \* ESP32Service.lastHeartbeatDevice
  lastHeartbeatTime,        \* ESP32Service.lastHeartbeatTime
  esp32Status,              \* the 'esp32-status' report published in the last step
  deviceUpdate,             \* the 'device-update' event emitted in the last step
  now,                      \* Date.now()
  snapshot,                 \* what a getDevices call returned in the last step
  lines,                    \* number of serial lines handled so far
  announced,                \* history: identifier -> its last presence update
  serialPort,               \* ESP32Service.serialPort: "null", "closed" or "open"
  isConnectedFlag,          \* ESP32Service.isConnectedFlag
  timers,                   \* commands whose simulateCommand timer is pending
  feed,                     \* lines the running timer callback has yet to feed
  portWrites,               \* commands written to the serial link
  lastResult,               \* the last sendCommand call and what it returned
  pm2,                      \* bootloader host: service key -> status pm2 reports
  currentService,           \* bootloader: currentService
  requests                  \* bootloader: start and stop requests, in order of arrival

dbVars == <<buzzer_bindings, osc_commands, osc_targets, buzzer_command_mappings, calls>>
oscVars == <<presses, tests, clients, senders, disconnects, faults>>
linkVars == <<serialPort, isConnectedFlag, timers, feed, portWrites, lastResult>>
parserVars == <<lastHeartbeatDevice, lastHeartbeatTime, esp32Status, deviceUpdate>>
devVars == <<deviceStates, parserVars, now, snapshot, lines, announced, linkVars>>
bootVars == <<pm2, currentService, requests>>
vars == <<bootVars, dbVars, oscVars, devVars>>

----------------------------------------------------------------------------
(* Bounds of the model *)

MaxCalls == 2        \* processBuzzerPress and sendTestCommand invocations
MaxFaults == 2       \* sends and log writes the environment lets fail
MaxDisconnects == 1
MaxLines == 3        \* serial lines handled
MaxTicks == 2        \* steps of the clock
MaxCommands == 2     \* sendCommand calls
MaxRequests == 2     \* start and stop requests to the bootloader
MaxConfig == 2       \* configuration requests

\* The keys of the managed services
SERVICES == {"waze-trivia", "osc-buzzer"}

----------------------------------------------------------------------------
(* Configuration store *)

MacA == "AA:BB:CC:DD:EE:FF"
MacB == "11:22:33:44:55:66"

\* Rows as createTables declares them (the columns the dispatch path reads).
SeedBindings ==
  { [id |-> 1, mac_address |-> MacA, device_name |-> "Red", is_active |-> TRUE],
    [id |-> 2, mac_address |-> MacB, device_name |-> "Blue", is_active |-> TRUE] }

SeedCommands ==
  { [id |-> 1, name |-> "QLab - GO", address |-> "/go"],
    [id |-> 2, name |-> "Light - Blackout", address |-> "/light/blackout"] }

\* Targets 1 and 2 have different names and the same address and port.
SeedTargets ==
  { [id |-> 1, name |-> "Local Test", ip_address |-> "127.0.0.1", port |-> 53000,
     is_active |-> TRUE],
    [id |-> 2, name |-> "QLab", ip_address |-> "127.0.0.1", port |-> 53000,
     is_active |-> TRUE],
    [id |-> 3, name |-> "Lights", ip_address |-> "10.0.0.9", port |-> 8000,
     is_active |-> TRUE],
    [id |-> 4, name |-> "Retired", ip_address |-> "10.0.0.7", port |-> 8000,
     is_active |-> FALSE] }

\* MacA fans out to three targets; MacB is bound but its only mapping points
\* at an inactive target; MacC has no binding.
SeedMappings ==
  { [id |-> 1, buzzer_binding_id |-> 1, osc_command_id |-> 1, osc_target_id |-> 1,
     is_active |-> TRUE],
    [id |-> 2, buzzer_binding_id |-> 1, osc_command_id |-> 2, osc_target_id |-> 2,
     is_active |-> TRUE],
    [id |-> 3, buzzer_binding_id |-> 1, osc_command_id |-> 1, osc_target_id |-> 3,
     is_active |-> TRUE],
    [id |-> 4, buzzer_binding_id |-> 2, osc_command_id |-> 1, osc_target_id |-> 4,
     is_active |-> TRUE] }

RECURSIVE SortById(_)
SortById(S) ==
  IF S = {} THEN <<>>
  ELSE LET r == CHOOSE x \in S : \A y \in S : x.id <= y.id
       IN <<r>> \o SortById(S \ {r})

\* The join without the filter on the target's is_active flag
getMappingsForBuzzer_anyTarget(macAddress) ==
  SortById(
    { [id |-> bcm.id, mac_address |-> bb.mac_address, device_name |-> bb.device_name,
       command_address |-> oc.address, target_name |-> ot.name,
       ip_address |-> ot.ip_address, port |-> ot.port] :
      <<bcm, bb, oc, ot>> \in
        { q \in buzzer_command_mappings \X buzzer_bindings \X osc_commands \X osc_targets :
            /\ q[1].buzzer_binding_id = q[2].id
            /\ q[1].osc_command_id = q[3].id
            /\ q[1].osc_target_id = q[4].id
            /\ q[2].mac_address = macAddress
            /\ q[1].is_active /\ q[2].is_active } })

\* The join without the filter on the binding's is_active flag
getMappingsForBuzzer_anyBinding(macAddress) ==
  SortById(
    { [id |-> bcm.id, mac_address |-> bb.mac_address, device_name |-> bb.device_name,
       command_address |-> oc.address, target_name |-> ot.name,
       ip_address |-> ot.ip_address, port |-> ot.port] :
      <<bcm, bb, oc, ot>> \in
        { q \in buzzer_command_mappings \X buzzer_bindings \X osc_commands \X osc_targets :
            /\ q[1].buzzer_binding_id = q[2].id
            /\ q[1].osc_command_id = q[3].id
            /\ q[1].osc_target_id = q[4].id
            /\ q[2].mac_address = macAddress
            /\ q[1].is_active /\ q[4].is_active } })

\* Database.getMappingsForBuzzer: the join of the four tables, filtered on the
\* three is_active flags, in storage order.
getMappingsForBuzzer(macAddress) ==
  SortById(
    { [id |-> bcm.id, mac_address |-> bb.mac_address, device_name |-> bb.device_name,
       command_address |-> oc.address, target_name |-> ot.name,
       ip_address |-> ot.ip_address, port |-> ot.port] :
      <<bcm, bb, oc, ot>> \in
        { q \in buzzer_command_mappings \X buzzer_bindings \X osc_commands \X osc_targets :
            /\ q[1].buzzer_binding_id = q[2].id
            /\ q[1].osc_command_id = q[3].id
            /\ q[1].osc_target_id = q[4].id
            /\ q[2].mac_address = macAddress
            /\ q[1].is_active /\ q[2].is_active /\ q[4].is_active } })

----------------------------------------------------------------------------
(* Sender pool *)

\* `${ip_address}:${port}`
targetKey(ip_address, port) == ip_address \o ":" \o ToString(port)

\* A sender constructed for every send
needsClient_always(key) == key = key

\* if (!client): a sender is constructed only when the pool has none for the key
needsClient(key) == key \notin DOMAIN clients

clientsWith(key) ==
  IF needsClient(key)
  THEN [k \in DOMAIN clients \cup {key} |->
          IF k = key THEN Len(senders) + 1 ELSE clients[k]]
  ELSE clients

sendersWith(key) ==
  IF needsClient(key)
  THEN Append(senders, [key |-> key, open |-> TRUE])
  ELSE senders

----------------------------------------------------------------------------
(* Environment: a send, a query or a log write either succeeds or fails *)

Fault(ok) ==
  /\ ok \/ faults < MaxFaults
  /\ faults' = IF ok THEN faults ELSE faults + 1

----------------------------------------------------------------------------
(* OSCService.processBuzzerPress / sendOSCMessage *)

\* One row handed to Database.logActivity; written is whether the INSERT
\* succeeded.  i is the loop iteration that made the call (0: outside the loop).
LogRow(event, r, success, written) ==
  [event_type |-> event, buzzer_mac |-> r.mac_address, i |-> r.i,
   osc_address |-> IF r.i = 0 THEN "null" ELSE r.mappings[r.i].command_address,
   target_ip |-> IF r.i = 0 THEN "null" ELSE r.mappings[r.i].ip_address,
   success |-> success, written |-> written]

\* The 'osc-sent' notification
Notice(r, success) ==
  [buzzer_mac |-> r.mac_address, i |-> r.i,
   osc_address |-> r.mappings[r.i].command_address,
   target_name |-> r.mappings[r.i].target_name,
   target_ip |-> r.mappings[r.i].ip_address,
   target_port |-> r.mappings[r.i].port,
   success |-> success]

\* A listener that drops a press whose timestamp is not a number
processBuzzerPress_skipsNaN(buzzerData) ==
  IF buzzerData.timestamp.s = "NaN" THEN presses
  ELSE Append(presses,
         [mac_address |-> buzzerData.mac_address, timestamp |-> buzzerData.timestamp,
          received_at |-> buzzerData.received_at,
          pc |-> "resolving", resolved |-> FALSE, mappings |-> <<>>, i |-> 0,
          client |-> 0, sent |-> <<>>, log |-> <<>>, emitted |-> <<>>])

\* esp32Service.on('buzzer-press') calls processBuzzerPress, which runs up to
\* its first await (the mapping query): the invocations after the call.
processBuzzerPress(buzzerData) ==
  Append(presses,
    [mac_address |-> buzzerData.mac_address, timestamp |-> buzzerData.timestamp,
     received_at |-> buzzerData.received_at,
     pc |-> "resolving", resolved |-> FALSE, mappings |-> <<>>, i |-> 0,
     client |-> 0, sent |-> <<>>, log |-> <<>>, emitted |-> <<>>])

\* The for loop of processBuzzerPress: the synchronous head of the next
\* sendOSCMessage (get or create the client, client.send), or the loop's end.
ContinueLoop(p, r) ==
  IF r.i < Len(r.mappings)
  THEN LET m == r.mappings[r.i + 1]
           key == targetKey(m.ip_address, m.port)
       IN /\ clients' = clientsWith(key)
          /\ senders' = sendersWith(key)
          /\ presses' = [presses EXCEPT ![p] =
               [r EXCEPT !.pc = "sending", !.i = r.i + 1, !.client = clients'[key]]]
  ELSE /\ presses' = [presses EXCEPT ![p] = [r EXCEPT !.pc = "done"]]
       /\ UNCHANGED <<clients, senders>>

\* The mapping query answers.
ResolveOk(p) ==
  /\ p \in DOMAIN presses
  /\ presses[p].pc = "resolving"
  /\ LET ms == getMappingsForBuzzer(presses[p].mac_address)
         r == [presses[p] EXCEPT !.mappings = ms, !.resolved = TRUE]
     IN IF Len(ms) = 0
        THEN /\ presses' = [presses EXCEPT ![p] = [r EXCEPT !.pc = "logUnmapped"]]
             /\ UNCHANGED <<clients, senders>>
        ELSE ContinueLoop(p, r)
  /\ UNCHANGED <<bootVars, dbVars, devVars, tests, disconnects, faults>>

\* The mapping query rejects: the catch of processBuzzerPress.
ResolveFail(p) ==
  /\ p \in DOMAIN presses
  /\ presses[p].pc = "resolving"
  /\ presses' = [presses EXCEPT ![p].pc = "logError"]
  /\ Fault(FALSE)
  /\ UNCHANGED <<bootVars, dbVars, devVars, tests, clients, senders, disconnects>>

\* logActivity('buzzer_press_unmapped') answers; on rejection the catch of
\* processBuzzerPress runs.
LogUnmappedDone(p, ok) ==
  /\ p \in DOMAIN presses
  /\ presses[p].pc = "logUnmapped"
  /\ LET r == presses[p]
         row == LogRow("buzzer_press_unmapped", r, FALSE, ok)
     IN presses' = [presses EXCEPT ![p] =
          [r EXCEPT !.log = Append(r.log, row),
                    !.pc = IF ok THEN "done" ELSE "logError"]]
  /\ Fault(ok)
  /\ UNCHANGED <<bootVars, dbVars, devVars, tests, clients, senders, disconnects>>

\* The callback of client.send: err or no err.
SendDone(p, ok) ==
  /\ p \in DOMAIN presses
  /\ presses[p].pc = "sending"
  /\ LET r == presses[p]
         m == r.mappings[r.i]
     IN presses' = [presses EXCEPT ![p] =
          [r EXCEPT !.sent = Append(r.sent,
                       [i |-> r.i, key |-> targetKey(m.ip_address, m.port),
                        client |-> r.client, ok |-> ok]),
                    !.pc = IF ok THEN "logSent" ELSE "logFailed"]]
  /\ Fault(ok)
  /\ UNCHANGED <<bootVars, dbVars, devVars, tests, clients, senders, disconnects>>

\* logActivity('osc_sent') answers: emit and go on, or fall into the catch of
\* sendOSCMessage.
LogSentDone(p, ok) ==
  /\ p \in DOMAIN presses
  /\ presses[p].pc = "logSent"
  /\ LET r == presses[p]
         row == LogRow("osc_sent", r, TRUE, ok)
     IN IF ok
        THEN ContinueLoop(p, [r EXCEPT !.log = Append(r.log, row),
                                       !.emitted = Append(r.emitted, Notice(r, TRUE))])
        ELSE /\ presses' = [presses EXCEPT ![p] =
                  [r EXCEPT !.log = Append(r.log, row), !.pc = "logFailed"]]
             /\ UNCHANGED <<clients, senders>>
  /\ Fault(ok)
  /\ UNCHANGED <<bootVars, dbVars, devVars, tests, disconnects>>

\* logActivity('osc_failed') in the catch of sendOSCMessage answers: emit the
\* failure and go on, or reject into the catch of processBuzzerPress.
LogFailedDone(p, ok) ==
  /\ p \in DOMAIN presses
  /\ presses[p].pc = "logFailed"
  /\ LET r == presses[p]
         row == LogRow("osc_failed", r, FALSE, ok)
     IN IF ok
        THEN ContinueLoop(p, [r EXCEPT !.log = Append(r.log, row),
                                       !.emitted = Append(r.emitted, Notice(r, FALSE))])
        ELSE /\ presses' = [presses EXCEPT ![p] =
                  [r EXCEPT !.log = Append(r.log, row), !.pc = "logError"]]
             /\ UNCHANGED <<clients, senders>>
  /\ Fault(ok)
  /\ UNCHANGED <<bootVars, dbVars, devVars, tests, disconnects>>

\* logActivity('buzzer_press_error') in the catch of processBuzzerPress
\* answers; on rejection the promise of processBuzzerPress rejects.
LogErrorDone(p, ok) ==
  /\ p \in DOMAIN presses
  /\ presses[p].pc = "logError"
  /\ LET r == presses[p]
         row == [LogRow("buzzer_press_error", r, FALSE, ok) EXCEPT
                   !.osc_address = "null", !.target_ip = "null"]
     IN presses' = [presses EXCEPT ![p] =
          [r EXCEPT !.log = Append(r.log, row),
                    !.pc = IF ok THEN "done" ELSE "rejected"]]
  /\ Fault(ok)
  /\ UNCHANGED <<bootVars, dbVars, devVars, tests, clients, senders, disconnects>>

----------------------------------------------------------------------------
(* OSCService.sendTestCommand *)

TestCommandIds == {1}
TestTargetIds == {1, 3, 9}

TestRow(event, t, success, written) ==
  [event_type |-> event, commandId |-> t.commandId, targetId |-> t.targetId,
   success |-> success, written |-> written]

TestNotice(success) == [test |-> TRUE, success |-> success]

\* socket.on('test-osc-command') and POST /api/commands/test call
\* sendTestCommand, which runs up to its first await (the command query).
TestArrives(commandId, targetId) ==
  /\ Len(presses) + Len(tests) < MaxCalls
  /\ tests' = Append(tests,
       [commandId |-> commandId, targetId |-> targetId, pc |-> "getCommand",
        key |-> "", client |-> 0, sent |-> <<>>, log |-> <<>>, emitted |-> <<>>])
  /\ UNCHANGED <<bootVars, dbVars, devVars, presses, clients, senders, disconnects, faults>>

\* SELECT * FROM osc_commands WHERE id = ? answers: no row throws into the
\* catch (a rejected query takes the same path).
TestCommandRow(k) ==
  /\ k \in DOMAIN tests
  /\ tests[k].pc = "getCommand"
  /\ tests' = [tests EXCEPT ![k].pc =
       IF \E c \in osc_commands : c.id = tests[k].commandId
       THEN "getTarget" ELSE "logFailed"]
  /\ UNCHANGED <<bootVars, dbVars, devVars, presses, clients, senders, disconnects, faults>>

\* SELECT * FROM osc_targets WHERE id = ? answers (is_active is not read):
\* get or create the client and call client.send, or throw into the catch.
TestTargetRow(k) ==
  /\ k \in DOMAIN tests
  /\ tests[k].pc = "getTarget"
  /\ IF \E t \in osc_targets : t.id = tests[k].targetId
     THEN LET target == CHOOSE t \in osc_targets : t.id = tests[k].targetId
              key == targetKey(target.ip_address, target.port)
          IN /\ clients' = clientsWith(key)
             /\ senders' = sendersWith(key)
             /\ tests' = [tests EXCEPT ![k] =
                  [@ EXCEPT !.pc = "sending", !.key = key, !.client = clients'[key]]]
     ELSE /\ tests' = [tests EXCEPT ![k].pc = "logFailed"]
          /\ UNCHANGED <<clients, senders>>
  /\ UNCHANGED <<bootVars, dbVars, devVars, presses, disconnects, faults>>

TestSendDone(k, ok) ==
  /\ k \in DOMAIN tests
  /\ tests[k].pc = "sending"
  /\ tests' = [tests EXCEPT ![k] =
       [@ EXCEPT !.sent = Append(@, [key |-> tests[k].key,
                                     client |-> tests[k].client, ok |-> ok]),
                 !.pc = IF ok THEN "logSent" ELSE "logFailed"]]
  /\ Fault(ok)
  /\ UNCHANGED <<bootVars, dbVars, devVars, presses, clients, senders, disconnects>>

\* logActivity('test_osc_sent') answers.
TestLogSentDone(k, ok) ==
  /\ k \in DOMAIN tests
  /\ tests[k].pc = "logSent"
  /\ LET t == tests[k]
         row == TestRow("test_osc_sent", t, TRUE, ok)
     IN tests' = [tests EXCEPT ![k] =
          IF ok
          THEN [t EXCEPT !.log = Append(t.log, row),
                         !.emitted = Append(t.emitted, TestNotice(TRUE)),
                         !.pc = "done"]
          ELSE [t EXCEPT !.log = Append(t.log, row), !.pc = "logFailed"]]
  /\ Fault(ok)
  /\ UNCHANGED <<bootVars, dbVars, devVars, presses, clients, senders, disconnects>>

\* logActivity('test_osc_failed') in the catch answers; the catch rethrows.
TestLogFailedDone(k, ok) ==
  /\ k \in DOMAIN tests
  /\ tests[k].pc = "logFailed"
  /\ LET t == tests[k]
         row == TestRow("test_osc_failed", t, FALSE, ok)
     IN tests' = [tests EXCEPT ![k] =
          IF ok
          THEN [t EXCEPT !.log = Append(t.log, row),
                         !.emitted = Append(t.emitted, TestNotice(FALSE)),
                         !.pc = "rejected"]
          ELSE [t EXCEPT !.log = Append(t.log, row), !.pc = "rejected"]]
  /\ Fault(ok)
  /\ UNCHANGED <<bootVars, dbVars, devVars, presses, clients, senders, disconnects>>

----------------------------------------------------------------------------
(* OSCService.disconnect *)

EmptyMap == [k \in {} |-> 0]

\* A disconnect that clears the pool without closing its clients
disconnect_leaky ==
  /\ disconnects < MaxDisconnects
  /\ clients' = EmptyMap
  /\ disconnects' = disconnects + 1
  /\ UNCHANGED <<bootVars, dbVars, devVars, presses, tests, faults, senders>>

\* Closes every pooled client and clears the pool.
disconnect ==
  /\ disconnects < MaxDisconnects
  /\ senders' = [s \in DOMAIN senders |->
       IF \E k \in DOMAIN clients : clients[k] = s
       THEN [senders[s] EXCEPT !.open = FALSE] ELSE senders[s]]
  /\ clients' = EmptyMap
  /\ disconnects' = disconnects + 1
  /\ UNCHANGED <<bootVars, dbVars, devVars, presses, tests, faults>>

----------------------------------------------------------------------------
(* JavaScript values, as far as the device store uses them *)

Undefined == [t |-> "undefined", n |-> 0, s |-> ""]
Null == [t |-> "null", n |-> 0, s |-> ""]
NaN == [t |-> "number", n |-> 0, s |-> "NaN"]
Num(n) == [t |-> "number", n |-> n, s |-> ""]
Str(s) == [t |-> "string", n |-> 0, s |-> s]
Bool(b) == [t |-> "boolean", n |-> IF b THEN 1 ELSE 0, s |-> ""]

IsNumber(v) == v.t = "number" /\ v.s = ""

\* ToBoolean
Truthy(v) ==
  CASE v.t = "boolean" -> v.n = 1
    [] v.t = "number" -> v.s = "" /\ v.n # 0
    [] v.t = "string" -> v.s # ""
    [] OTHER -> FALSE

\* a || b
Or(a, b) == IF Truthy(a) THEN a ELSE b

\* The decimal strings the lines of the model carry
DecimalOf(s) ==
  CASE s = "0" -> 0
    [] s = "1" -> 1
    [] s = "3" -> 3
    [] s = "5" -> 5
    [] s = "16" -> 16
    [] s = "7000" -> 7000
    [] OTHER -> -1

\* parseInt of a string
parseInt(s) == IF DecimalOf(s) >= 0 THEN Num(DecimalOf(s)) ELSE NaN

\* ToNumber
ToNumber(v) ==
  CASE v.t = "number" -> v
    [] v.t = "boolean" -> Num(v.n)
    [] v.t = "null" -> Num(0)
    [] v.t = "string" -> IF v.s = "" THEN Num(0) ELSE parseInt(v.s)
    [] OTHER -> NaN

\* isNaN
isNaN(v) == ~IsNumber(ToNumber(v))

\* a - b
Minus(a, b) ==
  LET x == ToNumber(a)
      y == ToNumber(b)
  IN IF IsNumber(x) /\ IsNumber(y) THEN Num(x.n - y.n) ELSE NaN

\* a + 1
PlusOne(a) ==
  IF a.t = "string" THEN Str(a.s \o "1")
  ELSE IF IsNumber(ToNumber(a)) THEN Num(ToNumber(a).n + 1) ELSE NaN

\* a < n for a number n
LessThan(a, n) == IsNumber(ToNumber(a)) /\ ToNumber(a).n < n

----------------------------------------------------------------------------
(* Serial lines: a line is a sequence of tokens, each a run of characters *)

RECURSIVE Join(_)
\* The string a token sequence spells
Join(toks) == IF toks = <<>> THEN "" ELSE Head(toks) \o Join(Tail(toks))

RECURSIVE Split(_, _)
\* String.prototype.split on a one-token separator
Split(toks, sep) ==
  IF \E n \in DOMAIN toks : toks[n] = sep
  THEN LET n == CHOOSE x \in DOMAIN toks :
                  toks[x] = sep /\ \A y \in 1..(x - 1) : toks[y] # sep
       IN <<SubSeq(toks, 1, n - 1)>> \o Split(SubSeq(toks, n + 1, Len(toks)), sep)
  ELSE <<toks>>

\* String.prototype.startsWith
startsWith(toks, prefix) ==
  Len(toks) >= Len(prefix) /\ SubSeq(toks, 1, Len(prefix)) = prefix

\* String.prototype.includes, for a text that one token of the model spells
includes(toks, text) == \E n \in DOMAIN toks : toks[n] = text

HexOctets == {"AA", "BB", "CC", "DD", "EE", "FF", "11", "22", "33", "44", "55", "66",
              "EC", "62", "60", "1D", "E8", "D4"}
TokLen(tok) == IF tok \in HexOctets THEN 2 ELSE 1

RECURSIVE Chars(_)
Chars(toks) == IF toks = <<>> THEN 0 ELSE TokLen(Head(toks)) + Chars(Tail(toks))

\* data.match(/from: ([A-F0-9:]{17})/): the 17 characters of [A-F0-9:] that
\* follow the first "from: ", or <<>> when there is no match
matchFrom(toks) ==
  IF \E n \in DOMAIN toks : toks[n] = " bytes from: "
  THEN LET n == CHOOSE x \in DOMAIN toks :
                  toks[x] = " bytes from: " /\ \A y \in 1..(x - 1) : toks[y] # " bytes from: "
           rest == SubSeq(toks, n + 1, Len(toks))
           fits == { m \in DOMAIN rest :
                       /\ Chars(SubSeq(rest, 1, m)) = 17
                       /\ \A j \in 1..m : rest[j] \in HexOctets \cup {":"} }
       IN IF fits = {} THEN <<>> ELSE SubSeq(rest, 1, CHOOSE m \in fits : TRUE)
  ELSE <<>>

\* data.match(/Heartbeat from device (\d+)/): the digits of the first match,
\* or "" when there is no match
matchHeartbeat(toks) ==
  LET hits == { n \in DOMAIN toks :
                  /\ toks[n] = "Heartbeat from device"
                  /\ n + 2 <= Len(toks)
                  /\ toks[n + 1] = " "
                  /\ DecimalOf(toks[n + 2]) >= 0 }
  IN IF hits = {} THEN ""
     ELSE toks[(CHOOSE n \in hits : \A m \in hits : n <= m) + 2]

Mac1 == <<"AA", ":", "BB", ":", "CC", ":", "DD", ":", "EE", ":", "FF">>
Mac2 == <<"11", ":", "22", ":", "33", ":", "44", ":", "55", ":", "66">>
Mac3 == <<"EC", ":", "62", ":", "60", ":", "1D", ":", "E8", ":", "D4">>
Macs == {Mac1, Mac2}

DeviceLine(mac, kv) == <<"DEVICE", ":">> \o mac \o kv
BuzzerLine(mac, ts) == <<"BUZZER", ":">> \o mac \o <<",", ts>>
ReceivedLine(mac) == <<"Received ", "16", " bytes from: ">> \o mac

KvOnline == <<",", "online", "=", "1", ",", "armed", "=", "0", ",", "pressed", "=", "0">>
KvOffline == <<",", "online", "=", "0">>
KvLastOnline == <<",", "last_online", "=", "5">>
KvLastSeen == <<",", "online", "=", "1", ",", "last_seen", "=", "7000">>
KvNoValue == <<",", "armed">>
KvLists == {KvOnline, KvOffline, KvLastOnline, KvLastSeen, KvNoValue}

Lines ==
  {DeviceLine(Mac1, kv) : kv \in KvLists}
    \cup {DeviceLine(Mac2, KvOnline), DeviceLine(Mac2, KvOffline)}
    \cup {BuzzerLine(Mac1, "5"), BuzzerLine(Mac2, "5")}
    \cup {ReceivedLine(m) : m \in Macs}

----------------------------------------------------------------------------
(* ESP32Service: the device state store *)

Fields == {"mac_address", "last_seen", "last_online", "online", "armed", "pressed",
           "press_count", "last_press", "discovery_mode"}

\* {}: every property undefined
EmptyObject == [f \in Fields |-> Undefined]

\* this.deviceStates.get(macAddress) || {}
existingState(macAddress) ==
  IF macAddress \in DOMAIN deviceStates THEN deviceStates[macAddress] ELSE EmptyObject

\* this.deviceStates.set(macAddress, state)
deviceStatesSet(macAddress, state) ==
  [k \in DOMAIN deviceStates \cup {macAddress} |->
     IF k = macAddress THEN state ELSE deviceStates[k]]

\* A handleBuzzerPress that leaves the store update for later
handleBuzzerPress_unapplied(macAddress, timestamp) == deviceStates

\* handleBuzzerPress: the store update after the emit
handleBuzzerPress(macAddress, timestamp) ==
  IF macAddress \in DOMAIN deviceStates
  THEN [deviceStates EXCEPT ![macAddress] =
          [@ EXCEPT !.pressed = Bool(TRUE),
                    !.last_press = timestamp,
                    !.press_count = PlusOne(Or(@, Num(0)))]]
  ELSE deviceStates

\* The macAddress parseDeviceData extracts: devicePart.split(':')[1]
deviceMacAddress(deviceString) ==
  LET devicePart == Split(deviceString, ",")[1]
      pieces == Split(devicePart, ":")
  IN IF Len(pieces) >= 2 THEN Join(pieces[2]) ELSE ""

RECURSIVE applyPairs(_, _, _)
\* for (let i = 1; i < parts.length; i++) params[key] = ...
applyPairs(params, parts, i) ==
  IF i > Len(parts) THEN params
  ELSE LET kv == Split(parts[i], "=")
           key == Join(kv[1])
           value == IF Len(kv) >= 2 THEN Str(Join(kv[2])) ELSE Undefined
           coerced == IF value = Str("1") THEN Bool(TRUE)
                      ELSE IF value = Str("0") THEN Bool(FALSE) ELSE value
       IN IF key # "" /\ value # Undefined /\ key \in Fields
          THEN applyPairs([params EXCEPT ![key] = coerced], parts, i + 1)
          ELSE applyPairs(params, parts, i + 1)

\* A parseDeviceData without the test of the identifier
parseDeviceData_anyIdentifier(deviceString) ==
  LET parts == Split(deviceString, ",")
      macAddress == deviceMacAddress(deviceString)
      existing == existingState(macAddress)
      defaults == [mac_address |-> Str(macAddress),
                   last_seen |-> Num(now),
                   last_online |-> existing.last_online,
                   online |-> Bool(FALSE),
                   armed |-> Bool(FALSE),
                   pressed |-> Bool(FALSE),
                   press_count |-> Or(existing.press_count, Num(0)),
                   last_press |-> Or(existing.last_press, Null),
                   discovery_mode |-> Undefined]
      params == applyPairs(defaults, parts, 2)
      stamped == IF params.online = Bool(TRUE)
                 THEN [params EXCEPT !.last_online = Num(now)]
                 ELSE IF ~Truthy(params.last_online) /\ Truthy(existing.last_online)
                      THEN [params EXCEPT !.last_online = existing.last_online]
                      ELSE params
  IN IF Len(parts) < 2 THEN deviceStates
     ELSE deviceStatesSet(macAddress, stamped)

\* parseDeviceData: the store after the DEVICE line deviceString
parseDeviceData(deviceString) ==
  LET parts == Split(deviceString, ",")
      macAddress == deviceMacAddress(deviceString)
      existing == existingState(macAddress)
      defaults == [mac_address |-> Str(macAddress),
                   last_seen |-> Num(now),
                   last_online |-> existing.last_online,
                   online |-> Bool(FALSE),
                   armed |-> Bool(FALSE),
                   pressed |-> Bool(FALSE),
                   press_count |-> Or(existing.press_count, Num(0)),
                   last_press |-> Or(existing.last_press, Null),
                   discovery_mode |-> Undefined]
      params == applyPairs(defaults, parts, 2)
      stamped == IF params.online = Bool(TRUE)
                 THEN [params EXCEPT !.last_online = Num(now)]
                 ELSE IF ~Truthy(params.last_online) /\ Truthy(existing.last_online)
                      THEN [params EXCEPT !.last_online = existing.last_online]
                      ELSE params
  IN IF Len(parts) < 2 \/ macAddress = "" THEN deviceStates
     ELSE deviceStatesSet(macAddress, stamped)

\* handleTriviaModeDevice: the store after a byte-count report naming macAddress
handleTriviaModeDevice(macAddress) ==
  LET existing == existingState(macAddress)
  IN deviceStatesSet(macAddress,
       [mac_address |-> Str(macAddress),
        last_seen |-> Num(now),
        last_online |-> Num(now),
        online |-> Bool(TRUE),
        armed |-> Bool(FALSE),
        pressed |-> Bool(FALSE),
        press_count |-> Or(existing.press_count, Num(0)),
        last_press |-> Or(existing.last_press, Null),
        discovery_mode |-> Str("trivia_heartbeat")])

\* staleThreshold, in milliseconds
staleThreshold == 60000

\* isOnline with <= in place of <
isOnline_inclusive(state) ==
  /\ state.online = Bool(TRUE)
  /\ LessThan(Minus(Num(now), Or(state.last_seen, Num(0))), staleThreshold + 1)

\* The isOnline of getDevices
isOnline(state) ==
  /\ state.online = Bool(TRUE)
  /\ LessThan(Minus(Num(now), Or(state.last_seen, Num(0))), staleThreshold)

\* getDevices: one view per entry of the store
getDevices ==
  [macAddress \in DOMAIN deviceStates |->
    LET state == deviceStates[macAddress]
        lastOnlineTimestamp ==
          IF isOnline(state)
          THEN Or(state.last_online, Or(state.last_seen, Num(now)))
          ELSE Or(state.last_online, Null)
    IN [mac_address |-> macAddress,
        status |-> IF isOnline(state) THEN "online" ELSE "offline",
        last_seen |-> Or(state.last_seen, Num(now)),
        last_online |-> Or(lastOnlineTimestamp, Null),
        online |-> isOnline(state),
        armed |-> state.armed = Bool(TRUE),
        pressed |-> state.pressed = Bool(TRUE),
        press_count |-> Or(state.press_count, Num(0)),
        last_press |-> Or(state.last_press, Null),
        time_since_last_seen |-> Minus(Num(now), Or(state.last_seen, Num(0))),
        time_since_last_online |->
          IF Truthy(lastOnlineTimestamp) THEN Minus(Num(now), lastOnlineTimestamp)
          ELSE Null]]

\* getStatus: onlineDevices, the entries whose stored online value is truthy
onlineDevices ==
  Cardinality({macAddress \in DOMAIN deviceStates : Truthy(deviceStates[macAddress].online)})

----------------------------------------------------------------------------
(* ESP32Service.handleSerialData, the clock and the snapshot call *)

NoSnapshot == [taken |-> FALSE, devices |-> EmptyMap]

\* An if-chain that tests for the byte-count report before the heartbeat
lineRule_receivedFirst(data) ==
  IF startsWith(data, <<"BUZZER", ":">>) THEN "BUZZER:"
  ELSE IF startsWith(data, <<"STATUS", ":">>) THEN "STATUS:"
  ELSE IF startsWith(data, <<"DEVICE", ":">>) THEN "DEVICE:"
  ELSE IF includes(data, "Received ") /\ includes(data, " bytes from: ") THEN "Received"
  ELSE IF includes(data, "Heartbeat from device") THEN "Heartbeat from device"
  ELSE IF startsWith(data, <<"ACK", ":">>) THEN "ACK:"
  ELSE IF startsWith(data, <<"ERROR", ":">>) THEN "ERROR:"
  ELSE ""

\* An if-chain that tests for the heartbeat first
lineRule_heartbeatFirst(data) ==
  IF includes(data, "Heartbeat from device") THEN "Heartbeat from device"
  ELSE IF startsWith(data, <<"BUZZER", ":">>) THEN "BUZZER:"
  ELSE IF startsWith(data, <<"STATUS", ":">>) THEN "STATUS:"
  ELSE IF startsWith(data, <<"DEVICE", ":">>) THEN "DEVICE:"
  ELSE IF includes(data, "Received ") /\ includes(data, " bytes from: ") THEN "Received"
  ELSE IF startsWith(data, <<"ACK", ":">>) THEN "ACK:"
  ELSE IF startsWith(data, <<"ERROR", ":">>) THEN "ERROR:"
  ELSE ""

\* The branch of handleSerialData's if / else-if chain that takes the line,
\* named by the text the branch tests for ("": no branch)
lineRule(data) ==
  IF startsWith(data, <<"BUZZER", ":">>) THEN "BUZZER:"
  ELSE IF startsWith(data, <<"STATUS", ":">>) THEN "STATUS:"
  ELSE IF startsWith(data, <<"DEVICE", ":">>) THEN "DEVICE:"
  ELSE IF includes(data, "Heartbeat from device") THEN "Heartbeat from device"
  ELSE IF includes(data, "Received ") /\ includes(data, " bytes from: ") THEN "Received"
  ELSE IF startsWith(data, <<"ACK", ":">>) THEN "ACK:"
  ELSE IF startsWith(data, <<"ERROR", ":">>) THEN "ERROR:"
  ELSE ""

\* obj[key] = value
objectSet(obj, key, value) ==
  [k \in DOMAIN obj \cup {key} |-> IF k = key THEN value ELSE obj[k]]

\* A buzzerData whose identifier is cut at the first colon
buzzerData_firstOctet(data) ==
  LET parts == Split(SubSeq(data, 3, Len(data)), ",")
  IN [mac_address |-> Join(Split(parts[1], ":")[1]),
      timestamp |-> IF Len(parts) >= 2 THEN parseInt(Join(parts[2])) ELSE NaN,
      received_at |-> now]

\* The buzzerData of the BUZZER line data: data.substring(7).split(','),
\* parseInt(timestamp) and Date.now()
buzzerData(data) ==
  LET parts == Split(SubSeq(data, 3, Len(data)), ",")
  IN [mac_address |-> Join(parts[1]),
      timestamp |-> IF Len(parts) >= 2 THEN parseInt(Join(parts[2])) ELSE NaN,
      received_at |-> now]

RECURSIVE statusPairs(_, _, _)
\* parts.forEach(part => { if (part.includes('=')) statusData[key] = ... })
statusPairs(statusData, parts, i) ==
  IF i > Len(parts) THEN statusData
  ELSE LET kv == Split(parts[i], "=")
           key == Join(kv[1])
           value == Str(Join(kv[2]))
       IN IF Len(kv) >= 2
          THEN statusPairs(
                 objectSet(statusData, key,
                           IF isNaN(value) THEN value ELSE parseInt(value.s)),
                 parts, i + 1)
          ELSE statusPairs(statusData, parts, i + 1)

\* The statusData of the STATUS line data
statusData(data) == statusPairs(EmptyMap, Split(SubSeq(data, 3, Len(data)), ","), 1)

\* new Date().toISOString(): the string that spells the time n
toISOString(n) == [t |-> "string", n |-> n, s |-> "toISOString"]

NoStatus == [published |-> FALSE, payload |-> EmptyMap]

NoUpdate == [emitted |-> FALSE, esp32_data |-> <<>>, timestamp |-> toISOString(0)]

\* this.emit('device-update', { esp32_data, timestamp })
emitDeviceUpdate(esp32_data) ==
  [emitted |-> TRUE, esp32_data |-> esp32_data, timestamp |-> toISOString(now)]

\* updateSystemStatus: the payload { connected: true, ...statusData, timestamp }
updateSystemStatus(status) ==
  LET first == objectSet(EmptyMap, "connected", Bool(TRUE))
      spread == [k \in DOMAIN first \cup DOMAIN status |->
                   IF k \in DOMAIN status THEN status[k] ELSE first[k]]
  IN [published |-> TRUE, payload |-> objectSet(spread, "timestamp", toISOString(now))]

\* The identifier a DEVICE line carries: the text between "DEVICE:" and the
\* first comma
lineIdentifier(data) == Join(SubSeq(Split(data, ",")[1], 3, Len(Split(data, ",")[1])))

\* A DEVICE line parseDeviceData has to act on: a comma and an identifier
isPresenceLine(data) ==
  /\ startsWith(data, <<"DEVICE", ":">>)
  /\ Len(Split(data, ",")) >= 2
  /\ lineIdentifier(data) # ""

saysOnline(data) ==
  applyPairs([f \in Fields |-> Undefined], Split(data, ","), 2).online = Bool(TRUE)

\* A byte-count report that names a hardware address
isReceivedLine(data) == lineRule(data) = "Received" /\ matchFrom(data) # <<>>

\* History of the presence updates handled, by the identifier the line names:
\* the line handled last and the time of the last one that said online.
announcedAfter(data) ==
  LET id == IF isPresenceLine(data) THEN lineIdentifier(data) ELSE Join(matchFrom(data))
      online == isReceivedLine(data) \/ saysOnline(data)
  IN IF isPresenceLine(data) \/ isReceivedLine(data)
     THEN [x \in DOMAIN announced \cup {id} |->
             IF x = id
             THEN [last |-> data,
                   onlineAt |-> IF online THEN now
                                ELSE IF id \in DOMAIN announced THEN announced[id].onlineAt
                                ELSE 0]
             ELSE announced[x]]
     ELSE announced

\* parser.on('data') hands one line to handleSerialData; the line is handled
\* to its end, listeners of the events it emits included.
handleSerialData(data) ==
  /\ lines < MaxLines
  /\ lines' = lines + 1
  /\ snapshot' = NoSnapshot
  /\ UNCHANGED <<bootVars, dbVars, tests, clients, senders, disconnects, faults, now>>
  /\ LET rule == lineRule(data)
         press == buzzerData(data)
         deviceId == matchHeartbeat(data)
     IN /\ IF rule = "BUZZER:"
           THEN /\ Len(presses) + Len(tests) < MaxCalls
                /\ presses' = processBuzzerPress(press)
                /\ deviceStates' = handleBuzzerPress(press.mac_address, press.timestamp)
           ELSE IF rule = "DEVICE:"
           THEN /\ deviceStates' = parseDeviceData(data)
                /\ UNCHANGED presses
           ELSE IF rule = "Received"
           THEN /\ deviceStates' =
                     (IF matchFrom(data) # <<>>
                      THEN handleTriviaModeDevice(Join(matchFrom(data)))
                      ELSE deviceStates)
                /\ UNCHANGED presses
           ELSE UNCHANGED <<presses, deviceStates>>
        /\ esp32Status' =
             (IF rule = "STATUS:" THEN updateSystemStatus(statusData(data)) ELSE NoStatus)
        /\ deviceUpdate' =
             (IF rule = "DEVICE:" THEN emitDeviceUpdate(data)
              ELSE IF rule = "Received" /\ matchFrom(data) # <<>>
              THEN emitDeviceUpdate(<<"DISCOVERED", ":">> \o matchFrom(data))
              ELSE NoUpdate)
        /\ IF rule = "Heartbeat from device" /\ deviceId # ""
           THEN /\ lastHeartbeatDevice' = deviceId
                /\ lastHeartbeatTime' = now
           ELSE UNCHANGED <<lastHeartbeatDevice, lastHeartbeatTime>>
  /\ announced' = announcedAfter(data)

----------------------------------------------------------------------------
(* ESP32Service: the serial link, sendCommand and simulateCommand *)

Commands == {"STATUS", "SCAN", "ARM", "DISARM"}

\* command.startsWith('ARM'), for the commands of the model
startsWithARM(command) == command = "ARM"

\* A simulateCommand that acknowledges every command
simulateCommand_ackOnly(command) == << <<"ACK", ":", command>> >>

\* simulateCommand: the lines the timer callback passes to handleSerialData
simulateCommand(command) ==
  IF command = "STATUS"
  THEN << <<"STATUS", ":", "1640995200", ",", "armed", "=", "0", ",", "devices", "=", "3">> >>
  ELSE IF startsWithARM(command) THEN << <<"ACK", ":", "ARMED">> >>
  ELSE IF command = "DISARM" THEN << <<"ACK", ":", "DISARMED">> >>
  ELSE IF command = "SCAN"
  THEN <<DeviceLine(Mac1, KvOnline), DeviceLine(Mac2, KvOnline)>>
  ELSE <<>>

RECURSIVE Scripted(_)
\* The number of lines the pending timers will feed
Scripted(cmds) ==
  IF cmds = <<>> THEN 0 ELSE Len(simulateCommand(Head(cmds))) + Scripted(Tail(cmds))

\* Lines of the handled-lines budget that pending simulated responses need
Reserved == Scripted(timers) + Len(feed)

\* An initialize that sets the flag whatever became of the link
initialize_flagSet(outcome) ==
  [serialPort |-> IF outcome = "noModule" THEN "null"
                  ELSE IF outcome = "openFails" THEN "closed" ELSE "open",
   isConnectedFlag |-> TRUE,
   portWrites |-> IF outcome = "opens" THEN <<"STATUS">> ELSE <<>>]

\* initialize: the link after startServer awaited it.  "noModule": serialport
\* is not installed; "openFails": open() reports an error; "opens": the open
\* handler sets the flag and sends STATUS.
initialize(outcome) ==
  [serialPort |-> IF outcome = "noModule" THEN "null"
                  ELSE IF outcome = "openFails" THEN "closed" ELSE "open",
   isConnectedFlag |-> outcome = "opens",
   portWrites |-> IF outcome = "opens" THEN <<"STATUS">> ELSE <<>>]

InitializeOutcomes == {"noModule", "openFails", "opens"}

\* A parser that delivers its next line only once every dispatch has settled
parserData_awaiting(data) ==
  /\ \A p \in DOMAIN presses : presses[p].pc \in {"done", "rejected"}
  /\ serialPort = "open"
  /\ feed = <<>>
  /\ lines + Reserved < MaxLines
  /\ handleSerialData(data)
  /\ UNCHANGED linkVars

\* parser.on('data'): the open link delivers a line
parserData(data) ==
  /\ serialPort = "open"
  /\ feed = <<>>
  /\ lines + Reserved < MaxLines
  /\ handleSerialData(data)
  /\ UNCHANGED linkVars

\* serialPort.on('error')
linkError ==
  /\ serialPort # "null"
  /\ feed = <<>>
  /\ isConnectedFlag
  /\ isConnectedFlag' = FALSE
  /\ snapshot' = NoSnapshot
  /\ esp32Status' = NoStatus
  /\ deviceUpdate' = NoUpdate
  /\ UNCHANGED <<bootVars, dbVars, oscVars, deviceStates, lastHeartbeatDevice, lastHeartbeatTime, now, lines, announced,
                 serialPort, timers, feed, portWrites, lastResult>>

\* serialPort.on('close'): the link closes, by itself or after
\* ESP32Service.disconnect closed it
linkClose ==
  /\ serialPort = "open"
  /\ feed = <<>>
  /\ serialPort' = "closed"
  /\ isConnectedFlag' = FALSE
  /\ snapshot' = NoSnapshot
  /\ esp32Status' = NoStatus
  /\ deviceUpdate' = NoUpdate
  /\ UNCHANGED <<bootVars, dbVars, oscVars, deviceStates, lastHeartbeatDevice, lastHeartbeatTime, now, lines, announced,
                 timers, feed, portWrites, lastResult>>

\* sendCommand: write to the link and return true, or schedule the simulated
\* response and return false
sendCommand(command) ==
  /\ feed = <<>>
  /\ Len(portWrites) + Len(timers) < MaxCommands + 1
  /\ IF isConnectedFlag /\ serialPort # "null"
     THEN /\ portWrites' = Append(portWrites, command)
          /\ lastResult' = [command |-> command, returned |-> TRUE]
          /\ UNCHANGED timers
     ELSE /\ lines + Reserved + Len(simulateCommand(command)) <= MaxLines
          /\ timers' = Append(timers, command)
          /\ lastResult' = [command |-> command, returned |-> FALSE]
          /\ UNCHANGED portWrites
  /\ snapshot' = NoSnapshot
  /\ esp32Status' = NoStatus
  /\ deviceUpdate' = NoUpdate
  /\ UNCHANGED <<bootVars, dbVars, oscVars, deviceStates, lastHeartbeatDevice, lastHeartbeatTime, now, lines, announced,
                 serialPort, isConnectedFlag, feed>>

\* The timer of the oldest simulateCommand fires: its callback passes the
\* first scripted line to handleSerialData.
SimulatedResponse ==
  /\ timers # <<>>
  /\ feed = <<>>
  /\ simulateCommand(Head(timers)) # <<>>
  /\ handleSerialData(Head(simulateCommand(Head(timers))))
  /\ feed' = Tail(simulateCommand(Head(timers)))
  /\ timers' = Tail(timers)
  /\ UNCHANGED <<serialPort, isConnectedFlag, portWrites, lastResult>>

\* The same callback passes its next scripted line to handleSerialData.
FeedRest ==
  /\ feed # <<>>
  /\ handleSerialData(Head(feed))
  /\ feed' = Tail(feed)
  /\ UNCHANGED <<serialPort, isConnectedFlag, timers, portWrites, lastResult>>

\* simulateBuzzerPress, as POST /api/buzzers/simulate and the 'test-buzzer'
\* socket event call it; "" stands for a macAddress that is not given
simulateBuzzerPress(macAddress, timestamp) ==
  LET mac == IF macAddress = "" THEN "AA:BB:CC:DD:EE:FF" ELSE macAddress
      ts == IF Truthy(timestamp) THEN timestamp ELSE Num(now)
  IN /\ Len(presses) + Len(tests) < MaxCalls
     /\ presses' = processBuzzerPress(
          [mac_address |-> mac, timestamp |-> ts, received_at |-> now])
     /\ deviceStates' = handleBuzzerPress(mac, ts)
     /\ snapshot' = NoSnapshot
     /\ esp32Status' = NoStatus
     /\ deviceUpdate' = NoUpdate
     /\ UNCHANGED <<bootVars, dbVars, tests, clients, senders, disconnects, faults,
                    lastHeartbeatDevice, lastHeartbeatTime, now, lines, announced, linkVars>>

TickMs == staleThreshold \div 2

\* Time passes.
Tick ==
  /\ now < TickMs * (MaxTicks + 1)
  /\ now' = now + TickMs
  /\ snapshot' = NoSnapshot
  /\ esp32Status' = NoStatus
  /\ deviceUpdate' = NoUpdate
  /\ UNCHANGED <<bootVars, dbVars, oscVars, deviceStates, lastHeartbeatDevice, lastHeartbeatTime, lines, announced,
                 linkVars>>

\* A caller of getDevices takes a snapshot.
GetDevices ==
  /\ snapshot' = [taken |-> TRUE, devices |-> getDevices]
  /\ esp32Status' = NoStatus
  /\ deviceUpdate' = NoUpdate
  /\ UNCHANGED <<bootVars, dbVars, oscVars, deviceStates, lastHeartbeatDevice, lastHeartbeatTime, now, lines, announced,
                 linkVars>>

----------------------------------------------------------------------------
(* The system *)

Init ==
  /\ buzzer_bindings = SeedBindings
  /\ osc_commands = SeedCommands
  /\ calls = <<>>
  /\ pm2 = [key \in SERVICES |-> "stopped"]
  /\ currentService = "null"
  /\ requests = <<>>
  /\ osc_targets = SeedTargets
  /\ buzzer_command_mappings = SeedMappings
  /\ presses = <<>>
  /\ tests = <<>>
  /\ clients = EmptyMap
  /\ senders = <<>>
  /\ disconnects = 0
  /\ faults = 0
  /\ deviceStates = EmptyMap
  /\ lastHeartbeatDevice = ""
  /\ lastHeartbeatTime = 0
  /\ esp32Status = NoStatus
  /\ deviceUpdate = NoUpdate
  /\ now = TickMs
  /\ snapshot = NoSnapshot
  /\ lines = 0
  /\ announced = EmptyMap
  /\ serialPort = initialize("opens").serialPort
  /\ isConnectedFlag = initialize("opens").isConnectedFlag
  /\ portWrites = initialize("opens").portWrites
  /\ timers = <<>>
  /\ feed = <<>>
  /\ lastResult = [command |-> "STATUS", returned |-> TRUE]

PressLines == {BuzzerLine(m, "5") : m \in {Mac1, Mac2, Mac3}}

PressSteps ==
  \E p \in 1..MaxCalls :
    \/ ResolveOk(p)
    \/ ResolveFail(p)
    \/ \E ok \in BOOLEAN :
         \/ LogUnmappedDone(p, ok)
         \/ SendDone(p, ok)
         \/ LogSentDone(p, ok)
         \/ LogFailedDone(p, ok)
         \/ LogErrorDone(p, ok)

\* Press lines and their dispatch, with failing sends, queries and log writes
DispatchNext ==
  \/ \E data \in PressLines : parserData(data)
  \/ PressSteps

\* Press dispatch, test sends and disconnect where every send and every log
\* write succeeds (the failure paths neither read nor write the pool)
PoolNext ==
  \/ \E data \in PressLines : parserData(data)
  \/ \E p \in 1..MaxCalls :
       \/ ResolveOk(p)
       \/ LogUnmappedDone(p, TRUE)
       \/ SendDone(p, TRUE)
       \/ LogSentDone(p, TRUE)
  \/ \E c \in TestCommandIds, t \in TestTargetIds : TestArrives(c, t)
  \/ \E k \in 1..MaxCalls :
       \/ TestCommandRow(k)
       \/ TestTargetRow(k)
       \/ TestSendDone(k, TRUE)
       \/ TestLogSentDone(k, TRUE)
       \/ TestLogFailedDone(k, TRUE)
  \/ disconnect

\* The serial lines, the clock and the snapshot call; the presses the lines
\* raise stay at their mapping query
DeviceNext ==
  \/ \E data \in Lines : parserData(data)
  \/ Tick
  \/ GetDevices

HeartbeatLine(slot) == <<"Heartbeat from device", " ", slot>>

StatusLines ==
  { <<"STATUS", ":", "5", ",", "armed", "=", "0">>,
    <<"STATUS", ":", "armed", ",", "devices", "=", "3", ",", "mode", "=", "trivia">>,
    <<"STATUS", ":", "armed", "=">>,
    <<"STATUS", ":", "Heartbeat from device", " ", "1">> }

PressIds == {Mac1, Mac2}
Stamps == {"5", "7000"}

\* BUZZER lines with a decimal timestamp
WellFormedPressLines == {BuzzerLine(id, ts) : id \in PressIds, ts \in Stamps}

\* DEVICE lines whose identifier is empty
EmptyIdLines == {DeviceLine(<<>>, KvOnline), DeviceLine(<<>>, KvOffline), DeviceLine(<<>>, <<>>)}

\* Lines of every shape the parser tells apart, and lines that fit two shapes
ParserLines ==
  StatusLines \cup WellFormedPressLines
    \cup { HeartbeatLine("1"), HeartbeatLine("soon"),
           HeartbeatLine("1") \o ReceivedLine(Mac1),
           <<"ACK", ":">> \o HeartbeatLine("3"),
           <<"BUZZER", ":">> \o HeartbeatLine("1") \o <<",", "5">>,
           <<"ACK", ":", "ARMED">>,
           <<"ACK", ":">> \o ReceivedLine(Mac2),
           <<"ERROR", ":", "busy">>,
           <<"hello">>,
           <<"buzzer", ":">> \o Mac1 \o <<",", "5">>,
           <<"device", ":">> \o Mac1 \o KvOnline,
           DeviceLine(Mac1, KvOnline),
           ReceivedLine(Mac1) }
    \cup EmptyIdLines

\* The parser: lines of every shape, and a caller's look at the store
ParserNext ==
  \/ \E data \in ParserLines : parserData(data)
  \/ GetDevices

\* The rows of a seeded table with their is_active flags set as flags says
WithFlags(rows, flags) == {[r EXCEPT !.is_active = flags[r.id]] : r \in rows}

\* The state after startServer over a store whose bindings, targets and
\* mappings were activated and deactivated at will before
InitStore ==
  /\ \E flags \in [{r.id : r \in SeedBindings} -> BOOLEAN] :
       buzzer_bindings = WithFlags(SeedBindings, flags)
  /\ osc_commands = SeedCommands
  /\ calls = <<>>
  /\ pm2 = [key \in SERVICES |-> "stopped"]
  /\ currentService = "null"
  /\ requests = <<>>
  /\ \E flags \in [{r.id : r \in SeedTargets} -> BOOLEAN] :
       osc_targets = WithFlags(SeedTargets, flags)
  /\ \E flags \in [{r.id : r \in SeedMappings} -> BOOLEAN] :
       buzzer_command_mappings = WithFlags(SeedMappings, flags)
  /\ presses = <<>>
  /\ tests = <<>>
  /\ clients = EmptyMap
  /\ senders = <<>>
  /\ disconnects = 0
  /\ faults = 0
  /\ deviceStates = EmptyMap
  /\ lastHeartbeatDevice = ""
  /\ lastHeartbeatTime = 0
  /\ esp32Status = NoStatus
  /\ deviceUpdate = NoUpdate
  /\ now = TickMs
  /\ snapshot = NoSnapshot
  /\ lines = 0
  /\ announced = EmptyMap
  /\ serialPort = initialize("opens").serialPort
  /\ isConnectedFlag = initialize("opens").isConnectedFlag
  /\ portWrites = initialize("opens").portWrites
  /\ timers = <<>>
  /\ feed = <<>>
  /\ lastResult = [command |-> "STATUS", returned |-> TRUE]

\* Presses and the answers of their mapping queries
StoreNext ==
  \/ \E data \in {BuzzerLine(id, "5") : id \in PressIds} : parserData(data)
  \/ \E p \in 1..MaxCalls : ResolveOk(p)

SpecDispatch == Init /\ [][DispatchNext]_vars

SpecStore == InitStore /\ [][StoreNext]_vars

SpecParser == Init /\ [][ParserNext]_vars

\* BUZZER lines whose timestamp is not a number, is empty or is missing
MalformedPressLines ==
  {BuzzerLine(Mac1, "soon"), BuzzerLine(Mac2, "soon"),
   <<"BUZZER", ":">> \o Mac1 \o <<",">>, <<"BUZZER", ":">> \o Mac1}

\* BUZZER lines of both kinds and the dispatch of their presses, every send
\* and every log write succeeding
PressNext ==
  \/ \E data \in MalformedPressLines
                    \cup {BuzzerLine(id, "5") : id \in PressIds} \cup {ReceivedLine(Mac1)} :
       parserData(data)
  \/ \E p \in 1..MaxCalls :
       \/ ResolveOk(p)
       \/ LogUnmappedDone(p, TRUE)
       \/ SendDone(p, TRUE)
       \/ LogSentDone(p, TRUE)

SpecPress == Init /\ [][PressNext]_vars

\* Presses from the transport and presses injected by a caller, on the open
\* link and after it closed, and their dispatch
SimulateNext ==
  \/ \E data \in {BuzzerLine(id, ts) : id \in PressIds, ts \in {"0", "5"}}
                    \cup {ReceivedLine(Mac1)} :
       parserData(data)
  \/ \E macAddress \in {"", MacA, MacB}, timestamp \in {Undefined, Num(0), Num(5)} :
       simulateBuzzerPress(macAddress, timestamp)
  \/ linkClose
  \/ \E p \in 1..MaxCalls :
       \/ ResolveOk(p)
       \/ LogUnmappedDone(p, TRUE)
       \/ SendDone(p, TRUE)
       \/ LogSentDone(p, TRUE)

SpecSimulate == Init /\ [][SimulateNext]_vars

SpecPool == Init /\ [][PoolNext]_vars

SpecDevice == Init /\ [][DeviceNext]_vars

\* Test sends whose send or log writes may fail, next to press dispatches
TestNext ==
  \/ \E data \in PressLines : parserData(data)
  \/ \E p \in 1..MaxCalls :
       \/ ResolveOk(p)
       \/ LogUnmappedDone(p, TRUE)
       \/ SendDone(p, TRUE)
       \/ LogSentDone(p, TRUE)
  \/ \E c \in TestCommandIds, t \in TestTargetIds : TestArrives(c, t)
  \/ \E k \in 1..MaxCalls :
       \/ TestCommandRow(k)
       \/ TestTargetRow(k)
       \/ \E ok \in BOOLEAN :
            \/ TestSendDone(k, ok)
            \/ TestLogSentDone(k, ok)
            \/ TestLogFailedDone(k, ok)

SpecTest == Init /\ [][TestNext]_vars

TransportLines ==
  {DeviceLine(Mac1, KvOnline), DeviceLine(Mac1, KvOffline), ReceivedLine(Mac1),
   BuzzerLine(Mac1, "5"), BuzzerLine(Mac2, "5"), <<"hello">>}

\* Lines of the hardware and of the SCAN simulation, handled while the
\* dispatches of earlier presses go on
TransportNext ==
  \/ \E data \in TransportLines : parserData(data)
  \/ linkClose
  \/ sendCommand("SCAN")
  \/ SimulatedResponse
  \/ FeedRest
  \/ \E p \in 1..MaxCalls :
       \/ ResolveOk(p)
       \/ LogUnmappedDone(p, TRUE)
       \/ SendDone(p, TRUE)
       \/ LogSentDone(p, TRUE)

SpecTransport == Init /\ [][TransportNext]_vars

\* The state after startServer awaited initialize, whatever became of the link
InitLink ==
  /\ buzzer_bindings = SeedBindings
  /\ osc_commands = SeedCommands
  /\ calls = <<>>
  /\ pm2 = [key \in SERVICES |-> "stopped"]
  /\ currentService = "null"
  /\ requests = <<>>
  /\ osc_targets = SeedTargets
  /\ buzzer_command_mappings = SeedMappings
  /\ presses = <<>>
  /\ tests = <<>>
  /\ clients = EmptyMap
  /\ senders = <<>>
  /\ disconnects = 0
  /\ faults = 0
  /\ deviceStates = EmptyMap
  /\ lastHeartbeatDevice = ""
  /\ lastHeartbeatTime = 0
  /\ esp32Status = NoStatus
  /\ deviceUpdate = NoUpdate
  /\ now = TickMs
  /\ snapshot = NoSnapshot
  /\ lines = 0
  /\ announced = EmptyMap
  /\ \E outcome \in InitializeOutcomes :
       /\ serialPort = initialize(outcome).serialPort
       /\ isConnectedFlag = initialize(outcome).isConnectedFlag
       /\ portWrites = initialize(outcome).portWrites
       /\ lastResult = [command |-> IF outcome = "opens" THEN "STATUS" ELSE "",
                        returned |-> outcome = "opens"]
  /\ timers = <<>>
  /\ feed = <<>>

LinkLines == {DeviceLine(Mac1, KvOnline), DeviceLine(Mac2, KvOffline), BuzzerLine(Mac1, "5")}

\* The serial link: lines of the hardware, link events, commands and their
\* simulated responses
LinkNext ==
  \/ \E data \in LinkLines : parserData(data)
  \/ linkError
  \/ linkClose
  \/ \E command \in Commands : sendCommand(command)
  \/ SimulatedResponse
  \/ FeedRest

SpecLink == InitLink /\ [][LinkNext]_vars

\* ENABLED <<SimulatedResponse>>_vars, written out: a timer is pending, no
\* callback is running and handleSerialData takes the line
SimulatedResponseEnabled == timers # <<>> /\ feed = <<>> /\ lines < MaxLines

\* ENABLED <<FeedRest>>_vars, written out
FeedRestEnabled == feed # <<>> /\ lines < MaxLines

\* WF_vars(SimulatedResponse): setTimeout fires its callback
FairSimulatedResponse ==
  []<>(~SimulatedResponseEnabled) \/ []<><<SimulatedResponse>>_vars

\* WF_vars(FeedRest): a callback runs to its end
FairFeedRest == []<>(~FeedRestEnabled) \/ []<><<FeedRest>>_vars

SpecLinkFair == SpecLink /\ FairSimulatedResponse /\ FairFeedRest

----------------------------------------------------------------------------
(* Properties of the dispatch engine *)

Count(seq, Test(_)) == Len(SelectSeq(seq, Test))

IsDispatchRow(row) == row.event_type \in {"osc_sent", "osc_failed"}

\* The handling of mapping i of press r has ended: the loop went on, or the
\* press ended in this iteration.
AttemptEnded(r, i) ==
  /\ r.resolved
  /\ i \in 1..Len(r.mappings)
  /\ \/ r.i > i
     \/ r.i = i /\ r.pc \in {"done", "logError", "rejected"}

PressEnded(r) == r.pc \in {"done", "rejected"}

NoticesFor(r, i) == LET T(n) == n.i = i IN Count(r.emitted, T)
SendsFor(r, i) == LET T(x) == x.i = i IN Count(r.sent, T)
WrittenRowsFor(r, i) ==
  LET T(row) == row.i = i /\ IsDispatchRow(row) /\ row.written IN Count(r.log, T)
LogWriteFailedFor(r, i) == \E n \in DOMAIN r.log : r.log[n].i = i /\ ~r.log[n].written

\* The identifier has no mapping whose binding, target and own flag are active.
NoActiveMapping(mac) ==
  ~ \E bcm \in buzzer_command_mappings, bb \in buzzer_bindings, ot \in osc_targets :
      /\ bcm.buzzer_binding_id = bb.id /\ bcm.osc_target_id = ot.id
      /\ bb.mac_address = mac
      /\ bcm.is_active /\ bb.is_active /\ ot.is_active

\* C1: a press that resolved N >= 1 mappings and has ended made the send for
\* every one of its N mappings and published exactly one outcome per mapping,
\* whatever failed while another mapping was handled.
C1_EveryMappingDispatched ==
  \A p \in DOMAIN presses :
    LET r == presses[p] IN
    (r.resolved /\ Len(r.mappings) >= 1 /\ PressEnded(r)) =>
      \A i \in 1..Len(r.mappings) : SendsFor(r, i) = 1 /\ NoticesFor(r, i) = 1

SharedKey == targetKey("127.0.0.1", 53000)

C4_OutcomeEqualsSendResult ==
  \A p \in DOMAIN presses :
    LET r == presses[p] IN
    /\ \A n \in DOMAIN r.emitted :
         \E x \in DOMAIN r.sent :
           r.sent[x].i = r.emitted[n].i /\ r.sent[x].ok = r.emitted[n].success
    /\ \A n \in DOMAIN r.log :
         (IsDispatchRow(r.log[n]) /\ r.log[n].written) =>
           \E x \in DOMAIN r.sent :
             r.sent[x].i = r.log[n].i /\ r.sent[x].ok = r.log[n].success

\* C5: every attempt whose handling has ended has exactly one osc-sent notice
\* and at most one written log row, exactly one when no log write failed.
C5_OneOutcomePerAttempt ==
  \A p \in DOMAIN presses :
    LET r == presses[p] IN
    \A i \in 1..Len(r.mappings) :
      AttemptEnded(r, i) =>
        /\ NoticesFor(r, i) = 1
        /\ WrittenRowsFor(r, i) <= 1
        /\ ~LogWriteFailedFor(r, i) => WrittenRowsFor(r, i) = 1

\* C6: a failed log write does not keep the attempt's notice from being
\* published, never reaches the catch of processBuzzerPress and never makes
\* the promise of processBuzzerPress reject.
C6_LogFailureContained ==
  \A p \in DOMAIN presses :
    LET r == presses[p] IN
    /\ Len(r.mappings) >= 1 => r.pc # "rejected"
    /\ (Len(r.mappings) >= 1 /\ r.pc = "logError") => ~ \E n \in DOMAIN r.log : ~r.log[n].written
    /\ \A i \in 1..Len(r.mappings) :
         (AttemptEnded(r, i) /\ LogWriteFailedFor(r, i)) => NoticesFor(r, i) >= 1

----------------------------------------------------------------------------
(* Properties of the device state store *)

\* C7: a DEVICE line for identifier m leaves an entry keyed by exactly m, and a
\* BUZZER line for an identifier that had a DEVICE line sets that entry's
\* pressed flag, its last_press and adds one to its press_count.
C7_EntryKeyedByIdentifier ==
  [][\A data \in Lines :
       handleSerialData(data) =>
         /\ isPresenceLine(data) => lineIdentifier(data) \in DOMAIN deviceStates'
         /\ \A ts \in {"5", "soon"} : \A m \in Macs :
              (data = BuzzerLine(m, ts) /\ Join(m) \in DOMAIN announced
                 /\ startsWith(announced[Join(m)].last, <<"DEVICE", ":">>)) =>
                /\ Join(m) \in DOMAIN deviceStates /\ Join(m) \in DOMAIN deviceStates'
                /\ deviceStates'[Join(m)].pressed = Bool(TRUE)
                /\ deviceStates'[Join(m)].last_press = parseInt(ts)
                /\ deviceStates'[Join(m)].press_count =
                     PlusOne(deviceStates[Join(m)].press_count)]_vars

C8First == DeviceLine(Mac2, KvOnline)
C8Second == DeviceLine(Mac2, KvOffline)

\* C8: once DEVICE:11:22:33:44:55:66,online=1,armed=0,pressed=0 and later
\* DEVICE:11:22:33:44:55:66,online=0 were handled, a snapshot has a view of
\* device 11:22:33:44:55:66 with online false and last_online the time of the
\* first line.
C8_OfflineKeepsLastOnline ==
  (/\ snapshot.taken
   /\ MacB \in DOMAIN announced
   /\ announced[MacB].last = C8Second
   /\ announced[MacB].onlineAt > 0) =>
     /\ MacB \in DOMAIN snapshot.devices
     /\ snapshot.devices[MacB].online = FALSE
     /\ snapshot.devices[MacB].last_online = Num(announced[MacB].onlineAt)

\* C9: no step removes an entry, lowers its last_online or turns a set
\* last_online into something that is no time.
C9_LastOnlineMonotonic ==
  [][\A k \in DOMAIN deviceStates :
       /\ k \in DOMAIN deviceStates'
       /\ Truthy(deviceStates[k].last_online) =>
            /\ IsNumber(deviceStates'[k].last_online)
            /\ IsNumber(deviceStates[k].last_online) =>
                 deviceStates'[k].last_online.n >= deviceStates[k].last_online.n]_vars

\* now - lastSeenAt is below the staleness threshold
Fresh(state) ==
  /\ IsNumber(ToNumber(state.last_seen))
  /\ now - ToNumber(state.last_seen).n < staleThreshold

\* C10: a snapshot has one view per stored entry, reports an entry online
\* exactly when its stored online flag is true and its last observation is
\* younger than 60000 ms, and leaves the store as it was.
C10_StalenessAtReadTime ==
  [][snapshot'.taken =>
       /\ deviceStates' = deviceStates
       /\ DOMAIN snapshot'.devices = DOMAIN deviceStates
       /\ \A k \in DOMAIN deviceStates :
            snapshot'.devices[k].online =
              (deviceStates[k].online = Bool(TRUE) /\ Fresh(deviceStates[k]))]_vars

\* C10 witness: one snapshot reports a stored-online entry last seen exactly
\* 60000 ms ago offline and a stored-online entry seen 30000 ms ago online.
C10_Witness ==
  /\ snapshot.taken
  /\ \E k \in DOMAIN deviceStates :
       /\ deviceStates[k].online = Bool(TRUE)
       /\ deviceStates[k].last_seen = Num(now - staleThreshold)
       /\ snapshot.devices[k].online = FALSE
  /\ \E k \in DOMAIN deviceStates :
       /\ deviceStates[k].online = Bool(TRUE)
       /\ deviceStates[k].last_seen = Num(now - TickMs)
       /\ snapshot.devices[k].online = TRUE

\* The identifiers the lines handled so far referenced: those of the BUZZER
\* lines, the DEVICE lines and the byte-count reports
Observed == DOMAIN announced \cup {presses[p].mac_address : p \in DOMAIN presses}

\* C11: after every step the store holds an entry for every identifier a
\* handled BUZZER line, DEVICE line or byte-count report referenced, and no
\* step removes an entry.
C11_EntryForEveryObserved ==
  [][/\ \A id \in Observed' : id \in DOMAIN deviceStates'
     /\ DOMAIN deviceStates \subseteq DOMAIN deviceStates']_vars

\* C12: a snapshot has a view only for identifiers that some handled line
\* referenced.
C12_OnlyObservedInSnapshot ==
  snapshot.taken => \A k \in DOMAIN snapshot.devices : k \in Observed

----------------------------------------------------------------------------
(* Properties of the serial link *)

\* isConnectedFlag && serialPort
linkUsable == isConnectedFlag /\ serialPort # "null"

\* C16: the flag is true only while the link is open; a sendCommand made while
\* the link is not usable writes nothing, returns false and queues its
\* simulated response; a sendCommand made on the open link is written,
\* returns true and queues nothing; a queued response leaves the queue only by
\* passing its first scripted line to handleSerialData.
C16_LinkOrSimulation ==
  [][/\ isConnectedFlag' => serialPort' = "open"
     /\ ~linkUsable => portWrites' = portWrites
     /\ Len(timers') > Len(timers) =>
          /\ ~linkUsable
          /\ lastResult'.returned = FALSE
          /\ timers' = Append(timers, lastResult'.command)
     /\ portWrites' # portWrites =>
          /\ linkUsable /\ serialPort = "open"
          /\ lastResult'.returned = TRUE
          /\ portWrites' = Append(portWrites, lastResult'.command)
          /\ timers' = timers
     /\ Len(timers') < Len(timers) =>
          /\ timers' = Tail(timers)
          /\ handleSerialData(Head(simulateCommand(Head(timers))))]_vars

\* C16 witness: the link took a command while it was open, then closed, and
\* the SCAN sent after that returned false and is being answered by the
\* timer callback.
C16_Witness ==
  /\ Len(portWrites) >= 2
  /\ serialPort = "closed" /\ ~isConnectedFlag
  /\ lastResult = [command |-> "SCAN", returned |-> FALSE]
  /\ feed # <<>>

\* C17: a SCAN whose simulated response is pending leads to the timer callback
\* having passed its first DEVICE line to handleSerialData, with the entry of
\* that line in the store.
C17_ScanFeedsDeviceLine ==
  (\E n \in DOMAIN timers : timers[n] = "SCAN")
    ~> (/\ feed # <<>>
        /\ startsWith(feed[1], <<"DEVICE", ":">>)
        /\ deviceMacAddress(DeviceLine(Mac1, KvOnline)) \in DOMAIN deviceStates
        /\ deviceStates[deviceMacAddress(DeviceLine(Mac1, KvOnline))].last_seen = Num(now))

\* C17 witness: with no serial module, the SCAN returned false and both of its
\* DEVICE lines went through handleSerialData into the store.
C17_Witness ==
  /\ serialPort = "null"
  /\ lastResult = [command |-> "SCAN", returned |-> FALSE]
  /\ timers = <<>> /\ feed = <<>>
  /\ lines = 2
  /\ DOMAIN deviceStates =
       {deviceMacAddress(DeviceLine(Mac1, KvOnline)), deviceMacAddress(DeviceLine(Mac2, KvOnline))}
  /\ \A k \in DOMAIN deviceStates : deviceStates[k].online = Bool(TRUE)

----------------------------------------------------------------------------
(* Properties of the transport *)

\* The store after one line is applied to it
StoreAfter(data) ==
  IF startsWith(data, <<"BUZZER", ":">>)
  THEN LET id == Join(Split(SubSeq(data, 3, Len(data)), ",")[1])
           ts == parseInt(Join(Split(SubSeq(data, 3, Len(data)), ",")[2]))
       IN IF id \in DOMAIN deviceStates
          THEN [k \in DOMAIN deviceStates |->
                  IF k = id
                  THEN [deviceStates[k] EXCEPT
                          !.pressed = Bool(TRUE), !.last_press = ts,
                          !.press_count = PlusOne(Or(deviceStates[k].press_count, Num(0)))]
                  ELSE deviceStates[k]]
          ELSE deviceStates
  ELSE IF isPresenceLine(data) THEN parseDeviceData(data)
  ELSE IF isReceivedLine(data) THEN handleTriviaModeDevice(Join(matchFrom(data)))
  ELSE deviceStates

DeliveredLines == TransportLines \cup {DeviceLine(Mac1, KvOnline), DeviceLine(Mac2, KvOnline)}

\* C13: every handled line is applied to the store in its own step, one line
\* per step, and no step between two lines (a dispatch step of an earlier
\* press, a link event) changes the store.
C13_AppliedInDeliveryOrder ==
  [][/\ lines' \in {lines, lines + 1}
     /\ lines' = lines => deviceStates' = deviceStates
     /\ lines' = lines + 1 => \E data \in DeliveredLines : handleSerialData(data)
     /\ \A data \in DeliveredLines :
          handleSerialData(data) => deviceStates' = StoreAfter(data)]_vars

\* C13 witness: a byte-count report and then two presses of the same device
\* were applied in that order, the second press while the dispatch of the
\* first is waiting for its send.
C13_Witness ==
  /\ MacA \in DOMAIN deviceStates
  /\ deviceStates[MacA].press_count = Num(2)
  /\ deviceStates[MacA].discovery_mode = Str("trivia_heartbeat")
  /\ Len(presses) = 2
  /\ presses[1].pc = "sending"

\* C14: handling a line changes no earlier press, and a BUZZER line leaves
\* its own press at the mapping query with nothing sent; whatever the presses
\* in flight are doing, the open link can deliver its next line.
C14_TransportNotBlocked ==
  [][/\ \A data \in DeliveredLines :
          handleSerialData(data) =>
            /\ \A p \in DOMAIN presses : presses'[p] = presses[p]
            /\ Len(presses') > Len(presses) =>
                 /\ Len(presses') = Len(presses) + 1
                 /\ presses'[Len(presses')].pc = "resolving"
                 /\ ~presses'[Len(presses')].resolved
                 /\ presses'[Len(presses')].sent = <<>>
     /\ (serialPort = "open" /\ feed = <<>> /\ lines + Reserved < MaxLines)
          => ENABLED parserData(<<"hello">>)]_vars

\* C14 witness: the first press is still waiting for the callback of its
\* send; a presence update and a second press were handled after it.
C14_Witness ==
  /\ Len(presses) = 2
  /\ presses[1].pc = "sending"
  /\ presses[2].pc = "resolving"
  /\ lines = 3
  /\ deviceStates # EmptyMap

----------------------------------------------------------------------------
(* Properties of a press's life *)

\* C15: a settled press that resolved zero mappings handed its unmapped row
\* to the log and made no send; one that resolved N >= 1 mappings went through
\* all N iterations, each with the result of its send (Sent or Failed).
C15_SettledAfterAllAttempts ==
  \A p \in DOMAIN presses :
    LET r == presses[p] IN
    (r.resolved /\ PressEnded(r)) =>
      IF Len(r.mappings) = 0
      THEN /\ r.sent = <<>>
           /\ \E n \in DOMAIN r.log : r.log[n].event_type = "buzzer_press_unmapped"
      ELSE /\ r.i = Len(r.mappings)
           /\ \A i \in 1..Len(r.mappings) : \E x \in DOMAIN r.sent : r.sent[x].i = i

----------------------------------------------------------------------------
(* Properties of shutdown *)

\* C18: a disconnect leaves the pool empty and every sender ever made closed,
\* changes no dispatch or test send in flight, and does not wait for any of
\* them: it can run whatever they are doing.
C18_DisconnectReleasesPool ==
  [][/\ disconnects' = disconnects + 1 =>
          /\ clients' = EmptyMap
          /\ \A n \in DOMAIN senders' : ~senders'[n].open
          /\ presses' = presses
          /\ tests' = tests
     /\ disconnects < MaxDisconnects => ENABLED disconnect]_vars

\* C18 witness: the pool has just been released while a press waits for the
\* callback of a send it made on a sender that is now closed.
C18_Witness ==
  /\ disconnects = 1
  /\ clients = EmptyMap
  /\ senders # <<>>
  /\ \E p \in DOMAIN presses :
       /\ presses[p].pc = "sending"
       /\ ~senders[presses[p].client].open

----------------------------------------------------------------------------
(* Properties of the test send *)

TestEnded(t) == t.pc \in {"done", "rejected"}

\* C19: a test send takes the pooled sender of its target's address:port, the
\* one press dispatches to that key take, and a test send that has ended
\* published exactly one notice, marked test, and wrote at most one log row,
\* exactly one when no log write failed.
C19_TestSendSharesPoolOneOutcome ==
  /\ \A k \in DOMAIN tests :
       LET t == tests[k]
           W(row) == row.written
           F(row) == ~row.written
       IN /\ t.client # 0 =>
               /\ senders[t.client].key = t.key
               /\ \A p \in DOMAIN presses : \A x \in DOMAIN presses[p].sent :
                    presses[p].sent[x].key = t.key => presses[p].sent[x].client = t.client
          /\ TestEnded(t) =>
               /\ Len(t.emitted) = 1
               /\ \A n \in DOMAIN t.emitted : t.emitted[n].test
               /\ Count(t.log, W) <= 1
               /\ Count(t.log, F) = 0 => Count(t.log, W) = 1

----------------------------------------------------------------------------
(* Properties of heartbeat-inferred presence *)

Inferred(state) == state.discovery_mode = Str("trivia_heartbeat")

\* C20: a byte-count report naming m leaves m's entry online, marked
\* trivia_heartbeat, with the press_count and last_press it had; a DEVICE line
\* for an m whose entry is so marked adds no entry and leaves m's press_count
\* and last_press as they were.
C20_InferredPresenceKeepsHistory ==
  [][\A m \in Macs :
       /\ handleSerialData(ReceivedLine(m)) =>
            /\ Join(m) \in DOMAIN deviceStates'
            /\ deviceStates'[Join(m)].online = Bool(TRUE)
            /\ Inferred(deviceStates'[Join(m)])
            /\ Join(m) \in DOMAIN deviceStates =>
                 /\ deviceStates'[Join(m)].press_count =
                      Or(deviceStates[Join(m)].press_count, Num(0))
                 /\ deviceStates'[Join(m)].last_press =
                      Or(deviceStates[Join(m)].last_press, Null)
       /\ \A data \in Lines :
            (/\ isPresenceLine(data) /\ lineIdentifier(data) = Join(m)
             /\ Join(m) \in DOMAIN deviceStates /\ Inferred(deviceStates[Join(m)])
             /\ handleSerialData(data)) =>
              /\ DOMAIN deviceStates' = DOMAIN deviceStates
              /\ deviceStates'[Join(m)].press_count = deviceStates[Join(m)].press_count
              /\ deviceStates'[Join(m)].last_press = deviceStates[Join(m)].last_press]_vars

----------------------------------------------------------------------------
(* Properties of the line parser *)

\* The tests of the line shapes, in the order the parser is to try them
RuleTests(data) ==
  << startsWith(data, <<"BUZZER", ":">>),
     startsWith(data, <<"STATUS", ":">>),
     startsWith(data, <<"DEVICE", ":">>),
     includes(data, "Heartbeat from device"),
     includes(data, "Received ") /\ includes(data, " bytes from: "),
     startsWith(data, <<"ACK", ":">>),
     startsWith(data, <<"ERROR", ":">>),
     TRUE >>

\* The first shape that fits: 1 press, 2 status, 3 presence, 4 heartbeat,
\* 5 byte-count report, 6 ACK, 7 ERROR, 8 unrecognized
SelectedRule(data) ==
  LET fits == RuleTests(data)
  IN CHOOSE n \in 1..8 : fits[n] /\ \A m \in 1..(n - 1) : ~fits[m]

MarkerUnchanged ==
  lastHeartbeatDevice' = lastHeartbeatDevice /\ lastHeartbeatTime' = lastHeartbeatTime

\* C21: a heartbeat, ACK, ERROR or unrecognized line is handled to its end
\* and leaves the store, the presses, the presence history and the status
\* report alone; of these only a heartbeat touches the last-heartbeat
\* marker, and a heartbeat touches nothing else.
C21_NoiseLinesLeaveStoreAlone ==
  [][\A data \in ParserLines :
       (SelectedRule(data) \in {4, 6, 7, 8} /\ handleSerialData(data)) =>
         /\ lines' = lines + 1
         /\ deviceStates' = deviceStates
         /\ presses' = presses
         /\ announced' = announced
         /\ ~deviceUpdate'.emitted
         /\ ~esp32Status'.published
         /\ SelectedRule(data) # 4 => MarkerUnchanged
         /\ SelectedRule(data) = 4 =>
              \/ MarkerUnchanged
              \/ lastHeartbeatDevice' \in {"1", "3"} /\ lastHeartbeatTime' = now]_vars

\* C21 witness: a heartbeat was handled after a presence update: the marker
\* is set and the store holds the one entry of the presence update.
C21_Witness ==
  /\ lastHeartbeatDevice = "1"
  /\ lastHeartbeatTime = now
  /\ DOMAIN deviceStates = {deviceMacAddress(DeviceLine(Mac1, KvOnline))}
  /\ deviceStates[deviceMacAddress(DeviceLine(Mac1, KvOnline))].last_seen = Num(TickMs)
  /\ presses = <<>>

\* C22: a line has the effect of the first shape that fits it, in the order
\* press, status, presence, heartbeat, byte-count report, ACK, ERROR,
\* unrecognized, and of no other shape.
C22_FirstMatchingRuleOnly ==
  [][\A data \in ParserLines :
       handleSerialData(data) =>
         LET rule == SelectedRule(data)
         IN /\ (rule = 1) = (Len(presses') = Len(presses) + 1)
            /\ rule # 1 => presses' = presses
            /\ (rule = 2) = esp32Status'.published
            /\ rule = 3 => deviceStates' = parseDeviceData(data)
            /\ rule \notin {3, 5} => ~deviceUpdate'.emitted
            /\ rule = 5 =>
                 deviceStates' = (IF matchFrom(data) # <<>>
                                  THEN handleTriviaModeDevice(Join(matchFrom(data)))
                                  ELSE deviceStates)
            /\ rule \in {2, 4, 6, 7, 8} => deviceStates' = deviceStates
            /\ rule = 1 => DOMAIN deviceStates' = DOMAIN deviceStates
            /\ rule # 4 => MarkerUnchanged
            /\ (rule = 4 /\ matchHeartbeat(data) # "") =>
                 lastHeartbeatDevice' = matchHeartbeat(data)]_vars

\* C22 witness: a line that starts with BUZZER: and contains a heartbeat was
\* handled as a press, and a line that starts with ACK: and contains a
\* heartbeat set the heartbeat marker.
C22_Witness ==
  /\ \E p \in DOMAIN presses : presses[p].mac_address = "Heartbeat from device 1"
  /\ lastHeartbeatDevice = "3"
  /\ deviceStates = EmptyMap

\* C23: a BUZZER line with identifier id and decimal timestamp ts raises
\* exactly one press, whose identifier is id in full and whose timestamp is
\* the number ts spells; the presses raised before are left as they are.
C23_PressRoundTrip ==
  [][\A id \in PressIds, ts \in Stamps :
       handleSerialData(BuzzerLine(id, ts)) =>
         /\ Len(presses') = Len(presses) + 1
         /\ SubSeq(presses', 1, Len(presses)) = presses
         /\ presses'[Len(presses')].mac_address = Join(id)
         /\ presses'[Len(presses')].timestamp = Num(DecimalOf(ts))]_vars

\* C23 witness: BUZZER:AA:BB:CC:DD:EE:FF,7000 was handled.
C23_Witness ==
  \E p \in DOMAIN presses :
    /\ presses[p].mac_address = "AA:BB:CC:DD:EE:FF"
    /\ presses[p].timestamp = Num(7000)

\* What a dispatch did, the timestamp and the arrival time of its press left out
Dispatched(r) ==
  [mac_address |-> r.mac_address, pc |-> r.pc, mappings |-> r.mappings,
   sent |-> [n \in DOMAIN r.sent |-> [i |-> r.sent[n].i, key |-> r.sent[n].key,
                                        ok |-> r.sent[n].ok]],
   log |-> r.log, emitted |-> r.emitted]

\* The outcome of a settled press of mac, whatever its timestamp
SettledAs(mac) ==
  LET ms == getMappingsForBuzzer(mac) IN
  [mac_address |-> mac, pc |-> "done",
   mappings |-> ms,
   sent |-> [n \in 1..Len(ms) |->
               [i |-> n,
                key |-> targetKey(ms[n].ip_address,
                                  ms[n].port),
                ok |-> TRUE]],
   log |-> IF ms = <<>>
           THEN << [event_type |-> "buzzer_press_unmapped", buzzer_mac |-> mac, i |-> 0,
                    osc_address |-> "null", target_ip |-> "null",
                    success |-> FALSE, written |-> TRUE] >>
           ELSE [n \in 1..Len(ms) |->
                   [event_type |-> "osc_sent", buzzer_mac |-> mac, i |-> n,
                    osc_address |-> ms[n].command_address,
                    target_ip |-> ms[n].ip_address,
                    success |-> TRUE, written |-> TRUE]],
   emitted |-> [n \in 1..Len(ms) |->
                  [buzzer_mac |-> mac, i |-> n,
                   osc_address |-> ms[n].command_address,
                   target_name |-> ms[n].target_name,
                   target_ip |-> ms[n].ip_address,
                   target_port |-> ms[n].port,
                   success |-> TRUE]]]

C25_StatusPairsDecoded ==
  [][\A data \in StatusLines :
       handleSerialData(data) =>
         LET parts == Split(SubSeq(data, 3, Len(data)), ",")
             pairs == {i \in DOMAIN parts : includes(parts[i], "=")}
             keyOf(i) == Join(Split(parts[i], "=")[1])
             valueOf(i) == Join(Split(parts[i], "=")[2])
         IN /\ esp32Status'.published
            /\ deviceStates' = deviceStates
            /\ DOMAIN esp32Status'.payload \subseteq
                  {keyOf(i) : i \in pairs} \cup {"connected", "timestamp"}
            /\ \A i \in pairs :
                 /\ keyOf(i) \in DOMAIN esp32Status'.payload
                 /\ esp32Status'.payload[keyOf(i)] =
                      (IF DecimalOf(valueOf(i)) >= 0 THEN Num(DecimalOf(valueOf(i)))
                       ELSE Str(valueOf(i)))]_vars

\* C26: a DEVICE line whose identifier is empty creates no entry of the store
\* and modifies none.
C26_EmptyIdentifierDiscarded ==
  [][\A data \in EmptyIdLines : handleSerialData(data) => deviceStates' = deviceStates]_vars

\* C26 witness: DEVICE:,online=1,armed=0,pressed=0 was handled after a
\* presence update of AA:BB:CC:DD:EE:FF, whose entry is the only one.
C26_Witness ==
  /\ deviceUpdate.emitted
  /\ deviceUpdate.esp32_data = DeviceLine(<<>>, KvOnline)
  /\ DOMAIN deviceStates = {deviceMacAddress(DeviceLine(Mac1, KvOnline))}

----------------------------------------------------------------------------
(* Properties of a failed mapping query *)

\* C27: a press whose mapping query failed settles with exactly one row in
\* the log, a written buzzer_press_error, and no send; its error does not
\* leave processBuzzerPress.
C27_QueryFailureLoggedOnce ==
  \A p \in DOMAIN presses :
    (~presses[p].resolved /\ presses[p].pc \in {"done", "rejected"}) =>
      /\ presses[p].pc = "done"
      /\ presses[p].sent = <<>>
      /\ Len(presses[p].log) = 1
      /\ presses[p].log[1].event_type = "buzzer_press_error"
      /\ presses[p].log[1].written

----------------------------------------------------------------------------
(* Properties of the injected press *)

\* C28: simulateBuzzerPress(id, ts) raises the press and applies the store
\* update that the line BUZZER:id,ts would raise and apply in the same state,
\* whether the link is open or closed.
C28_InjectedPressAsFromTransport ==
  [][\A id \in PressIds, ts \in {"0", "5"} :
       simulateBuzzerPress(Join(id), Num(DecimalOf(ts))) =>
         /\ presses' = processBuzzerPress(buzzerData(BuzzerLine(id, ts)))
         /\ deviceStates' = handleBuzzerPress(buzzerData(BuzzerLine(id, ts)).mac_address,
                                               buzzerData(BuzzerLine(id, ts)).timestamp)]_vars

----------------------------------------------------------------------------
(* Configuration requests *)

\* The id an AUTOINCREMENT column gives the next row of a table
lastID(rows) ==
  1 + (IF rows = {} THEN 0 ELSE CHOOSE n \in {r.id : r \in rows} : \A r \in rows : r.id <= n)

\* A configuration request and where it stands
Call(op, mac_address, osc_command_id, osc_target_id, pc, status) ==
  [op |-> op, mac_address |-> mac_address, osc_command_id |-> osc_command_id,
   osc_target_id |-> osc_target_id, pc |-> pc, status |-> status, binding_id |-> 0, id |-> 0]

\* POST /api/bindings: without an address or a name 400; otherwise
\* createBuzzerBinding's INSERT OR REPLACE removes the row that holds the
\* address and inserts a row with the next id and the default is_active
createBuzzerBinding(macAddress, deviceName) ==
  /\ Len(calls) < MaxConfig
  /\ IF macAddress = "" \/ deviceName = ""
     THEN /\ calls' = Append(calls, Call("createBuzzerBinding", macAddress, 0, 0, "done", 400))
          /\ UNCHANGED buzzer_bindings
     ELSE /\ buzzer_bindings' =
               {bb \in buzzer_bindings : bb.mac_address # macAddress}
                 \cup {[id |-> lastID(buzzer_bindings), mac_address |-> macAddress,
                        device_name |-> deviceName, is_active |-> TRUE]}
          /\ calls' = Append(calls,
               [Call("createBuzzerBinding", macAddress, 0, 0, "done", 200)
                  EXCEPT !.id = lastID(buzzer_bindings)])
  /\ UNCHANGED <<bootVars, osc_commands, osc_targets, buzzer_command_mappings, oscVars, devVars>>

\* POST /api/bindings/:mac_address/mappings arrives: without a command id or
\* a target id 400; otherwise the binding is looked up
postMapping(mac_address, osc_command_id, osc_target_id) ==
  /\ Len(calls) < MaxConfig
  /\ calls' = Append(calls,
       IF osc_command_id = 0 \/ osc_target_id = 0
       THEN Call("createMapping", mac_address, osc_command_id, osc_target_id, "done", 400)
       ELSE Call("createMapping", mac_address, osc_command_id, osc_target_id, "getBuzzerBindingByMac", 0))
  /\ UNCHANGED <<bootVars, buzzer_bindings, osc_commands, osc_targets, buzzer_command_mappings,
                 oscVars, devVars>>

\* getBuzzerBindingByMac answers call c: no row 404 for a mapping request
\* and { changes: 0 } for deleteMappingsForBuzzer; with a row the mapping
\* request goes on to its INSERT, and deleteMappingsForBuzzer runs its DELETE
\* on buzzer_mappings, a table createTables never makes, which rejects
getBuzzerBindingByMac(c) ==
  /\ c \in DOMAIN calls
  /\ calls[c].pc = "getBuzzerBindingByMac"
  /\ LET found == {bb \in buzzer_bindings : bb.mac_address = calls[c].mac_address}
     IN calls' = [calls EXCEPT ![c] =
          IF found = {}
          THEN [@ EXCEPT !.pc = "done",
                         !.status = IF calls[c].op = "createMapping" THEN 404 ELSE 200]
          ELSE IF calls[c].op = "createMapping"
          THEN [@ EXCEPT !.pc = "createMapping", !.binding_id = (CHOOSE bb \in found : TRUE).id]
          ELSE [@ EXCEPT !.pc = "done", !.status = 500,
                         !.binding_id = (CHOOSE bb \in found : TRUE).id]]
  /\ UNCHANGED <<bootVars, buzzer_bindings, osc_commands, osc_targets, buzzer_command_mappings,
                 oscVars, devVars>>

\* createMapping: the INSERT of call c, no foreign key being enforced
createMapping(c) ==
  /\ c \in DOMAIN calls
  /\ calls[c].pc = "createMapping"
  /\ buzzer_command_mappings' = buzzer_command_mappings \cup
       {[id |-> lastID(buzzer_command_mappings), buzzer_binding_id |-> calls[c].binding_id,
         osc_command_id |-> calls[c].osc_command_id, osc_target_id |-> calls[c].osc_target_id,
         is_active |-> TRUE]}
  /\ calls' = [calls EXCEPT ![c].pc = "done", ![c].status = 200,
                            ![c].id = lastID(buzzer_command_mappings)]
  /\ UNCHANGED <<bootVars, buzzer_bindings, osc_commands, osc_targets, oscVars, devVars>>

\* deleteMappingsForBuzzer is called: the binding is looked up
deleteMappingsForBuzzer(macAddress) ==
  /\ Len(calls) < MaxConfig
  /\ calls' = Append(calls, Call("deleteMappingsForBuzzer", macAddress, 0, 0, "getBuzzerBindingByMac", 0))
  /\ UNCHANGED <<bootVars, buzzer_bindings, osc_commands, osc_targets, buzzer_command_mappings,
                 oscVars, devVars>>

\* Addresses and ids of the configuration requests: a bound address, an
\* unbound one and none; an absent id, an existing one and one of no row
ConfigMacs == {MacA, MacB, "EC:62:60:1D:E8:D4"}

ConfigNext ==
  \/ \E macAddress \in {MacA, "EC:62:60:1D:E8:D4", ""}, deviceName \in {"Red", "Stage", ""} :
       createBuzzerBinding(macAddress, deviceName)
  \/ \E mac_address \in {MacA, "EC:62:60:1D:E8:D4"}, osc_command_id \in {0, 1, 9}, osc_target_id \in {0, 1, 9} :
       postMapping(mac_address, osc_command_id, osc_target_id)
  \/ \E macAddress \in ConfigMacs : deleteMappingsForBuzzer(macAddress)
  \/ \E c \in 1..MaxConfig : getBuzzerBindingByMac(c) \/ createMapping(c)
  \/ \E data \in {BuzzerLine(Mac1, "5"), BuzzerLine(Mac3, "5")} : parserData(data)
  \/ \E p \in 1..MaxCalls : ResolveOk(p)

SpecConfig == Init /\ [][ConfigNext]_vars

----------------------------------------------------------------------------
(* Service bootloader *)

\* startService is called for an HTTP or a socket request: an unknown key is
\* answered at once, otherwise 'pm2 jlist' is launched
startService(via, serviceKey, forceKill) ==
  /\ Len(requests) < MaxRequests
  /\ requests' = Append(requests,
       [via |-> via, op |-> "start", serviceKey |-> serviceKey, forceKill |-> forceKill,
        pc |-> IF serviceKey \in SERVICES THEN "getPM2Status" ELSE "done",
        timer |-> 0,
        result |-> IF serviceKey \in SERVICES THEN [success |-> FALSE, error |-> "pending"]
                   ELSE [success |-> FALSE, error |-> "Service not found"]])
  /\ UNCHANGED <<pm2, currentService, dbVars, oscVars, devVars>>

\* 'pm2 jlist' returned to request r: a start without force is refused when
\* a service is online, otherwise 'pm2 stop all' is launched
getPM2Status(r, error) ==
  /\ r \in DOMAIN requests
  /\ requests[r].pc = "getPM2Status"
  /\ LET runningServices == IF error THEN {} ELSE {key \in SERVICES : pm2[key] = "online"}
     IN requests' = [requests EXCEPT ![r] =
          IF runningServices # {} /\ ~requests[r].forceKill
          THEN [@ EXCEPT !.pc = "done", !.result = [success |-> FALSE, error |-> "CONFLICT"]]
          ELSE [@ EXCEPT !.pc = "stop"]]
  /\ UNCHANGED <<pm2, currentService, dbVars, oscVars, devVars>>

\* 'pm2 stop all' of start request r returned: whatever it reported, the
\* one-second timer is set
stopDone(r, stopError) ==
  /\ r \in DOMAIN requests
  /\ requests[r].op = "start"
  /\ requests[r].pc = "stop"
  /\ pm2' = IF stopError THEN pm2 ELSE [key \in SERVICES |-> "stopped"]
  /\ requests' = [requests EXCEPT ![r].pc = "setTimeout",
                                   ![r].timer = 1 + Cardinality({q \in DOMAIN requests : requests[q].timer > 0})]
  /\ UNCHANGED <<currentService, dbVars, oscVars, devVars>>

\* The timer of start request r fires, timers firing in the order they were
\* set: 'pm2 start' of the requested service is launched
timerFired(r) ==
  /\ r \in DOMAIN requests
  /\ requests[r].pc = "setTimeout"
  /\ \A q \in DOMAIN requests :
       requests[q].pc = "setTimeout" => requests[q].timer >= requests[r].timer
  /\ requests' = [requests EXCEPT ![r].pc = "start"]
  /\ UNCHANGED <<pm2, currentService, dbVars, oscVars, devVars>>

\* 'pm2 start <pm2Name>' of start request r returned
startDone(r, startError) ==
  /\ r \in DOMAIN requests
  /\ requests[r].pc = "start"
  /\ IF startError
     THEN /\ requests' = [requests EXCEPT ![r].pc = "done",
                                           ![r].result = [success |-> FALSE, error |-> "startError"]]
          /\ UNCHANGED <<pm2, currentService>>
     ELSE /\ pm2' = [pm2 EXCEPT ![requests[r].serviceKey] = "online"]
          /\ currentService' = requests[r].serviceKey
          /\ requests' = [requests EXCEPT ![r].pc = "done",
                                           ![r].result = [success |-> TRUE, error |-> ""]]
  /\ UNCHANGED <<dbVars, oscVars, devVars>>

\* stopAllServices is called for an HTTP or a socket request: 'pm2 stop all'
\* is launched
stopAllServices(via) ==
  /\ Len(requests) < MaxRequests
  /\ requests' = Append(requests,
       [via |-> via, op |-> "stop", serviceKey |-> "", forceKill |-> FALSE,
        pc |-> "stop", timer |-> 0, result |-> [success |-> FALSE, error |-> "pending"]])
  /\ UNCHANGED <<pm2, currentService, dbVars, oscVars, devVars>>

\* 'pm2 stop all' of stop request r returned
stopAllDone(r, error) ==
  /\ r \in DOMAIN requests
  /\ requests[r].op = "stop"
  /\ requests[r].pc = "stop"
  /\ pm2' = IF error THEN pm2 ELSE [key \in SERVICES |-> "stopped"]
  /\ currentService' = "null"
  /\ requests' = [requests EXCEPT ![r].pc = "done",
                                   ![r].result = [success |-> ~error,
                                                  error |-> IF error THEN "error" ELSE ""]]
  /\ UNCHANGED <<dbVars, oscVars, devVars>>

\* Requests over HTTP and over the socket, and the callbacks of their commands
BootNext ==
  \/ \E via \in {"http", "socket"}, serviceKey \in SERVICES \cup {"unknown"}, forceKill \in BOOLEAN :
       startService(via, serviceKey, forceKill)
  \/ \E r \in 1..MaxRequests, error \in BOOLEAN : getPM2Status(r, error)
  \/ \E r \in 1..MaxRequests, stopError \in BOOLEAN : stopDone(r, stopError)
  \/ \E r \in 1..MaxRequests : timerFired(r)
  \/ \E r \in 1..MaxRequests, startError \in BOOLEAN : startDone(r, startError)
  \/ \E via \in {"http", "socket"} : stopAllServices(via)
  \/ \E r \in 1..MaxRequests, error \in BOOLEAN : stopAllDone(r, error)

SpecBoot == Init /\ [][BootNext]_vars

\* C30: whatever the order of the start requests, forced or not, and of the
\* stop requests and of the completions of their commands, at most one of
\* the managed services is online.
C30_AtMostOneServiceRunning ==
  Cardinality({key \in SERVICES : pm2[key] = "online"}) <= 1

----------------------------------------------------------------------------
(* Properties of the mapping query *)

\* The mappings of the binding of mac that are active, with their binding and
\* their target active
ActiveMappingIds(mac) ==
  { bcm.id : bcm \in
      { m \in buzzer_command_mappings :
          /\ m.is_active
          /\ \E bb \in buzzer_bindings :
               bb.id = m.buzzer_binding_id /\ bb.mac_address = mac /\ bb.is_active
          /\ \E ot \in osc_targets : ot.id = m.osc_target_id /\ ot.is_active } }

----------------------------------------------------------------------------
(* Properties of the released pool *)

\* C31: from the first disconnect on the pool is empty and no sender is open:
\* neither a dispatch that was in flight when the pool was released nor a
\* later press or test send makes a new pooled sender.
C31_PoolStaysReleased ==
  disconnects > 0 =>
    /\ clients = EmptyMap
    /\ \A n \in DOMAIN senders : ~senders[n].open

----------------------------------------------------------------------------
(* Properties of the configuration requests *)

\* The ids of the mappings a press of mac dispatches to
MappingIds(mac) ==
  LET ms == getMappingsForBuzzer(mac) IN {ms[n].id : n \in DOMAIN ms}

\* C32: an accepted POST /api/bindings for an address that has a binding
\* keeps the id of that binding and the mappings the mapping query returns
\* for the address.
C32_RebindKeepsMappings ==
  [][\A mac \in ConfigMacs :
       (/\ Len(calls') = Len(calls) + 1
        /\ calls'[Len(calls')].op = "createBuzzerBinding"
        /\ calls'[Len(calls')].status = 200
        /\ calls'[Len(calls')].mac_address = mac
        /\ \E bb \in buzzer_bindings : bb.mac_address = mac)
       => /\ {bb.id : bb \in {b \in buzzer_bindings : b.mac_address = mac}}
               = {bb.id : bb \in {b \in buzzer_bindings' : b.mac_address = mac}}
          /\ MappingIds(mac)' = MappingIds(mac)]_vars

\* C33: a mapping request is accepted only with rows for its binding, its
\* command and its target, and the mapping it made is returned by the mapping
\* query while binding and target are active; a request for an address
\* without a binding ends with 404 and no new mapping.
C33_AcceptedMappingsResolve ==
  [][\A c \in DOMAIN calls :
       (calls[c].op = "createMapping" /\ calls[c].pc # "done" /\ calls'[c].pc = "done")
       => IF calls'[c].status = 200
          THEN /\ \E bb \in buzzer_bindings' :
                    bb.id = calls'[c].binding_id /\ bb.mac_address = calls'[c].mac_address
               /\ \E oc \in osc_commands' : oc.id = calls'[c].osc_command_id
               /\ \E ot \in osc_targets' : ot.id = calls'[c].osc_target_id
               /\ (\A ot \in osc_targets' : ot.id = calls'[c].osc_target_id => ot.is_active)
                    => calls'[c].id \in MappingIds(calls[c].mac_address)'
          ELSE /\ calls'[c].status = 404
               /\ ~\E bb \in buzzer_bindings : bb.mac_address = calls'[c].mac_address
               /\ buzzer_command_mappings' = buzzer_command_mappings]_vars

\* C39: deleteMappingsForBuzzer ends without error; for an address with a
\* binding no mapping of that binding is left, the mapping query for the
\* address is empty and the mappings of the other bindings are as before;
\* for an address without a binding nothing changes.
C39_DeleteRemovesOwnMappings ==
  [][\A c \in DOMAIN calls :
       (calls[c].op = "deleteMappingsForBuzzer" /\ calls[c].pc # "done" /\ calls'[c].pc = "done")
       => /\ calls'[c].status = 200
          /\ MappingIds(calls[c].mac_address)' = {}
          /\ buzzer_command_mappings' =
               {m \in buzzer_command_mappings :
                  ~\E bb \in buzzer_bindings :
                     bb.mac_address = calls'[c].mac_address /\ bb.id = m.buzzer_binding_id}]_vars

----------------------------------------------------------------------------
(* Properties of the press counters *)

\* C34: while a device entry exists, a press event for its identifier adds
\* exactly one to its press_count, and every other step, the presence updates
\* among them, leaves its press_count and its last_press as they were; so the
\* count never falls and a last_press once set is never cleared.
C34_PressCountersMonotone ==
  [][\A k \in DOMAIN deviceStates \cap DOMAIN deviceStates' :
       IF Len(presses') > Len(presses) /\ presses'[Len(presses')].mac_address = k
       THEN /\ deviceStates'[k].press_count = PlusOne(deviceStates[k].press_count)
            /\ deviceStates'[k].last_press # Null
       ELSE /\ deviceStates'[k].press_count = deviceStates[k].press_count
            /\ deviceStates'[k].last_press = deviceStates[k].last_press]_vars

----------------------------------------------------------------------------
(* Properties of the status summary *)

\* C35: the onlineDevices count of getStatus is the number of entries that a
\* getDevices call at the same instant reports online.
C35_OnlineCountMatchesSnapshot ==
  onlineDevices = Cardinality({k \in DOMAIN getDevices : getDevices[k].online})

\* C36: a published 'esp32-status' report carries the link state of the
\* moment as its connected flag; the report made from a simulated STATUS
\* response, the link being down, does not say connected.
C36_StatusReportsLinkState ==
  esp32Status.published => esp32Status.payload["connected"] = Bool(isConnectedFlag)

----------------------------------------------------------------------------
(* Properties of the bootloader *)

\* C37: a start request without force whose status check finds a service
\* online ends there with CONFLICT, the services and currentService being
\* left as they are; and the stop-all of a start request stops a service that
\* is online only if the request is forced.
C37_UnforcedStartRejected ==
  [][\A r \in DOMAIN requests :
       /\ (/\ requests[r].pc = "getPM2Status"
           /\ requests'[r].pc # "getPM2Status"
           /\ ~requests[r].forceKill
           /\ \E key \in SERVICES : pm2[key] = "online")
          => /\ requests'[r].pc = "done"
             /\ requests'[r].result.error = "CONFLICT"
             /\ pm2' = pm2
             /\ currentService' = currentService
       /\ (/\ requests[r].op = "start"
           /\ requests[r].pc = "stop"
           /\ requests'[r].pc = "setTimeout"
           /\ pm2' # pm2)
          => requests[r].forceKill]_vars

\* C38: when a start or stop request completes, currentService names a
\* service only if that service is online, and is null exactly when no
\* managed service is online.
C38_CurrentServiceAgrees ==
  [][(\E r \in DOMAIN requests : requests[r].pc # "done" /\ requests'[r].pc = "done")
       => /\ currentService' # "null" => pm2'[currentService'] = "online"
          /\ currentService' = "null" <=> \A key \in SERVICES : pm2'[key] # "online"]_vars

====
